---- MODULE Spec2Model ----
(***************************************************************************)
(* A model of the fixed-timestep platformer in mario-rust/src/game.        *)
(*                                                                         *)
(* Numbers.  The program computes in f32; the model computes in exact      *)
(* fixed point, with units chosen so that one fixed step is exact:         *)
(*   time      1/3600 s        (fixed_dt = 1/60 s = 60 units)              *)
(*   velocity  1/60 px/s       (VU units per px/s)                         *)
(*   position  1/3600 px       (PU units per px)                           *)
(* so that vel * fixed_dt is  vel  position units and  accel * fixed_dt    *)
(* is  accel  velocity units.  A product by a fraction that is not exact   *)
(* in these units (the jump cut of an odd velocity) truncates toward 0.    *)
(***************************************************************************)
EXTENDS Integers, Sequences, FiniteSets, TLC

\* ------------------------------------------------------------------ units
\* Velocity units per px/s.
VU == 60
\* Position units per px.
PU == VU * VU
\* Time units per second.
TU == VU * VU

Px(n) == n * PU
Speed(n) == n * VU

Min(a, b) == IF a < b THEN a ELSE b
Max(a, b) == IF a > b THEN a ELSE b

\* n * num / den, truncated toward zero as an exact product would round
\* the least.
MulFrac(n, num, den) ==
    IF n * num >= 0 THEN (n * num) \div den ELSE 0 - ((0 - n * num) \div den)

\* vel * dt, a displacement in position units: v/VU px/s for dt/TU s is
\* v * dt / VU units of 1/PU px, as PU = TU.
VelTimesDt(v, dt) == MulFrac(v, dt, VU)

\* accel * dt (accel in px/s^2), a velocity change in velocity units:
\* a px/s^2 for dt/TU s is a * dt * VU / TU units.
AccelTimesDt(a, dt) == MulFrac(a, dt, VU)

\* ----------------------------------------------------------------- Config
\* Config::default, mod.rs 42-67.
fixed_dt == 60
max_frame_time == 900
tile_size == 32
player_w == 22
player_h == 28
move_speed == 220
move_accel == 1600
move_decel == 2000
gravity == 1200
terminal_velocity == 780
jump_speed == 420
coyote_time == 360
jump_buffer_time == 432
jump_cut_halves == 2
stomp_bounce == 320
enemy_w == 24
enemy_h == 20
enemy_speed == 65
mushroom_w == 24
mushroom_h == 22
hurt_invuln_time == 2700
hurt_knockback_x == 200
hurt_knockback_y == 260

Tile == Px(tile_size)
player_size == [x |-> Px(player_w), y |-> Px(player_h)]
enemy_size == [x |-> Px(enemy_w), y |-> Px(enemy_h)]
mushroom_size == [x |-> Px(mushroom_w), y |-> Px(mushroom_h)]

vec2(x, y) == [x |-> x, y |-> y]
Rect(x, y, w, h) == [x |-> x, y |-> y, w |-> w, h |-> h]

\* ---------------------------------------------------------------- physics
rect_at(pos, size) == Rect(pos.x, pos.y, size.x, size.y)

\* rects_intersect with <= and >= on the x axis: rectangles that share an
\* edge count.
rects_intersect_closed(a, b) ==
    /\ a.x <= b.x + b.w
    /\ a.x + a.w >= b.x
    /\ a.y < b.y + b.h
    /\ a.y + a.h > b.y

rects_intersect(a, b) ==
    /\ a.x < b.x + b.w
    /\ a.x + a.w > b.x
    /\ a.y < b.y + b.h
    /\ a.y + a.h > b.y

approach(value, target, delta) ==
    IF value < target THEN Min(value + delta, target)
    ELSE Max(value - delta, target)

\* The X loop of move_with_collisions over solids[i..]: px, vx are pos.x and
\* vel.x so far (rect.x is pos.x throughout, rect.y is the unmoved y).
RECURSIVE ResolveX(_, _, _, _, _, _)
ResolveX(i, px, vx, y, size, solids) ==
    IF i > Len(solids) THEN [pos |-> px, vel |-> vx]
    ELSE
        LET solid == solids[i]
            hit == rects_intersect(Rect(px, y, size.x, size.y), solid)
            npx == IF ~hit THEN px
                   ELSE IF vx > 0 THEN solid.x - size.x
                   ELSE IF vx < 0 THEN solid.x + solid.w
                   ELSE px
            nvx == IF hit THEN 0 ELSE vx
        IN  ResolveX(i + 1, npx, nvx, y, size, solids)

\* The Y loop of move_with_collisions over solids[i..], at the resolved x.
RECURSIVE ResolveY(_, _, _, _, _, _, _)
ResolveY(i, py, vy, g, x, size, solids) ==
    IF i > Len(solids) THEN [pos |-> py, vel |-> vy, on_ground |-> g]
    ELSE
        LET solid == solids[i]
            hit == rects_intersect(Rect(x, py, size.x, size.y), solid)
            npy == IF ~hit THEN py
                   ELSE IF vy > 0 THEN solid.y - size.y
                   ELSE IF vy < 0 THEN solid.y + solid.h
                   ELSE py
            ng == IF hit /\ vy > 0 THEN TRUE ELSE g
            nvy == IF hit THEN 0 ELSE vy
        IN  ResolveY(i + 1, npy, nvy, ng, x, size, solids)

\* What move_with_collisions leaves in pos, vel and its return value, from
\* the results of its two loops.
Resolved(rx, ry) ==
    [pos |-> vec2(rx.pos, ry.pos), vel |-> vec2(rx.vel, ry.vel), on_ground |-> ry.on_ground]

\* The Y loop run at the x the call was given, not at the resolved one.
ResolveYAfter_old_x(rx, pos, size, vel, solids, dt) ==
    Resolved(rx, ResolveY(1, pos.y + VelTimesDt(vel.y, dt), vel.y, FALSE, pos.x, size, solids))

\* The Y move and loop of move_with_collisions, after the X loop left rx.
ResolveYAfter(rx, pos, size, vel, solids, dt) ==
    Resolved(rx, ResolveY(1, pos.y + VelTimesDt(vel.y, dt), vel.y, FALSE, rx.pos, size, solids))

\* move_with_collisions reporting on_ground also for an actor that rests
\* inside a solid.
move_with_collisions_resting(pos, size, vel, solids, dt) ==
    [ResolveYAfter(ResolveX(1, pos.x + VelTimesDt(vel.x, dt), vel.x, pos.y, size, solids),
                   pos, size, vel, solids, dt)
        EXCEPT !.on_ground =
            @ \/ \E i \in 1..Len(solids) : rects_intersect(rect_at(pos, size), solids[i])]

move_with_collisions(pos, size, vel, solids, dt) ==
    ResolveYAfter(ResolveX(1, pos.x + VelTimesDt(vel.x, dt), vel.x, pos.y, size, solids),
                  pos, size, vel, solids, dt)

\* ------------------------------------------------------------------ world
\* A level text is a sequence of rows, each a sequence of one-character
\* strings.  Cells in the order from_ascii visits them: row by row.
RowCells(lines, r) ==
    [c \in 1..Len(lines[r]) |-> [row |-> r - 1, col |-> c - 1, ch |-> lines[r][c]]]

RECURSIVE CellsFrom(_, _)
CellsFrom(lines, r) ==
    IF r > Len(lines) THEN << >> ELSE RowCells(lines, r) \o CellsFrom(lines, r + 1)

RECURSIVE MaxRowLen(_, _)
MaxRowLen(lines, r) ==
    IF r > Len(lines) THEN 0 ELSE Max(Len(lines[r]), MaxRowLen(lines, r + 1))

IsCh(cell, ch) == cell.ch = ch

CellsOf(lines, ch) == SelectSeq(CellsFrom(lines, 1), LAMBDA cell : IsCh(cell, ch))

TilePos(cell) == vec2(cell.col * Tile, cell.row * Tile)

is_solid_tile(w, col, row) ==
    IF col < 0 \/ row < 0 THEN FALSE
    ELSE IF col >= w.width \/ row >= w.height THEN FALSE
    ELSE w.solid_tiles[row * w.width + col + 1]

\* The row scan of ground_y_for_x from `row` down; NoGround is None.
NoGround == [some |-> FALSE, y |-> 0]

RECURSIVE GroundScan(_, _, _)
GroundScan(w, col, row) ==
    IF row >= w.height THEN NoGround
    ELSE IF is_solid_tile(w, col, row) THEN [some |-> TRUE, y |-> row * Tile]
    ELSE GroundScan(w, col, row + 1)

ground_y_for_x(w, world_x, start_y) ==
    LET col == world_x \div Tile
        start_row == Max(start_y \div Tile, 0)
    IN  GroundScan(w, col, start_row)

unwrap_or(opt, default) == IF opt.some THEN opt.y ELSE default

\* The spot an enemy or a mushroom takes on its tile: centred, standing on
\* the first ground at or below the tile.
PlaceOnGround(w, tile_pos, size) ==
    LET x == tile_pos.x + (Tile - size.x) \div 2
        sample_x == tile_pos.x + Tile \div 2
        base_y == unwrap_or(ground_y_for_x(w, sample_x, tile_pos.y), tile_pos.y + Tile)
    IN  vec2(x, base_y - size.y)

from_ascii(lines) ==
    LET height == Len(lines)
        width == MaxRowLen(lines, 1)
        solidCells == CellsOf(lines, "#")
        solidAt == {<<solidCells[i].col, solidCells[i].row>> : i \in 1..Len(solidCells)}
        coinCells == CellsOf(lines, "C")
        mushCells == CellsOf(lines, "M")
        enemyCells == CellsOf(lines, "E")
        base == [ solids |-> [i \in 1..Len(solidCells) |->
                                 rect_at(TilePos(solidCells[i]), vec2(Tile, Tile))],
                  solid_tiles |-> [k \in 1..(width * height) |->
                                 <<(k - 1) % width, (k - 1) \div width>> \in solidAt],
                  coins |-> [i \in 1..Len(coinCells) |->
                                 vec2(coinCells[i].col * Tile + Tile \div 2,
                                      coinCells[i].row * Tile + Tile \div 2)],
                  mushrooms |-> << >>,
                  enemy_spawns |-> [i \in 1..Len(enemyCells) |-> TilePos(enemyCells[i])],
                  player_spawn |-> TilePos(CellsOf(lines, "P")[1]),
                  goal_tile |-> TilePos(CellsOf(lines, "G")[1]),
                  width |-> width,
                  height |-> height ]
    IN  [base EXCEPT !.mushrooms =
            [i \in 1..Len(mushCells) |-> PlaceOnGround(base, TilePos(mushCells[i]), mushroom_size)]]

goal_trigger_rect(w) ==
    LET goal_center_x == w.goal_tile.x + Tile \div 2
        base_y == unwrap_or(ground_y_for_x(w, goal_center_x, w.goal_tile.y), w.goal_tile.y + Tile)
        pole_height == Tile * 3
        pole_w == (Tile * 18) \div 100
        pole_x == goal_center_x - pole_w \div 2
        pole_y == base_y - pole_height
    IN  Rect(pole_x, pole_y, pole_w, pole_height)

\* ----------------------------------------------------------------- player
SpawnPos(spawn) ==
    vec2(spawn.x + (Tile - player_size.x) \div 2, spawn.y + (Tile - player_size.y))

Player_new(spawn) ==
    [ pos |-> SpawnPos(spawn),
      vel |-> vec2(0, 0),
      on_ground |-> FALSE,
      size |-> player_size,
      facing |-> 1,
      coyote_timer |-> 0,
      jump_buffer_timer |-> 0,
      powered |-> FALSE,
      invuln_timer |-> 0 ]

Player_reset(p, spawn) ==
    [p EXCEPT !.pos = SpawnPos(spawn),
              !.vel = vec2(0, 0),
              !.on_ground = FALSE,
              !.facing = 1,
              !.coyote_timer = 0,
              !.jump_buffer_timer = 0,
              !.powered = FALSE,
              !.invuln_timer = 0,
              !.size = player_size]

Player_rect(p) == rect_at(p.pos, p.size)

is_powered(p) == p.powered

set_powered(p, powered) == [p EXCEPT !.powered = powered]

is_invulnerable(p) == p.invuln_timer > 0

start_invulnerability(p, duration) == [p EXCEPT !.invuln_timer = Max(duration, 0)]

\* vel.y *= jump_cut_multiplier (0.5).
JumpCut(vy) == MulFrac(vy, 1, jump_cut_halves)

\* A jump trigger that leaves the coyote timer running.
TriggerJump_keeping_coyote(p) ==
    [p EXCEPT !.vel.y = 0 - Speed(jump_speed),
              !.on_ground = FALSE,
              !.jump_buffer_timer = 0]

\* Either jump trigger of Player::update: lines 79-85 and 96-102.
TriggerJump(p) ==
    [p EXCEPT !.vel.y = 0 - Speed(jump_speed),
              !.on_ground = FALSE,
              !.coyote_timer = 0,
              !.jump_buffer_timer = 0]

\* Line 49 without .max(0.0).
TickInvuln_unclamped(p, dt) == [p EXCEPT !.invuln_timer = @ - dt]

\* Player::update, statement by statement.  Line 49.
TickInvuln(p, dt) == [p EXCEPT !.invuln_timer = Max(@ - dt, 0)]

\* Lines 51-55.
BufferJump(p, inp, dt) ==
    [p EXCEPT !.jump_buffer_timer =
        IF inp.jump_pressed THEN jump_buffer_time ELSE Max(@ - dt, 0)]

\* Lines 57-59 without the test of the edge: every ascending step is cut.
CutJump_unasked(p, inp) ==
    IF p.vel.y < 0 THEN [p EXCEPT !.vel.y = JumpCut(@)] ELSE p

\* Lines 57-59.
CutJump(p, inp) ==
    IF inp.jump_released /\ p.vel.y < 0 THEN [p EXCEPT !.vel.y = JumpCut(@)] ELSE p

\* Lines 61-65 with no grace: off the ground the timer is 0 at once.
TickCoyote_airborne(p, dt) ==
    [p EXCEPT !.coyote_timer = IF p.on_ground THEN coyote_time ELSE 0]

\* Lines 61-65.
TickCoyote(p, dt) ==
    [p EXCEPT !.coyote_timer = IF p.on_ground THEN coyote_time ELSE Max(@ - dt, 0)]

\* Lines 67-69.
Face(p, inp) == IF inp.move_x # 0 THEN [p EXCEPT !.facing = inp.move_x] ELSE p

\* Lines 71-77.
Run(p, inp, dt) ==
    [p EXCEPT !.vel.x =
        approach(@, inp.move_x * Speed(move_speed),
                 AccelTimesDt(IF inp.move_x # 0 THEN move_accel ELSE move_decel, dt))]

\* A jump trigger under its condition, and whether it fired.
JumpIf(p, cond) == [player |-> IF cond THEN TriggerJump(p) ELSE p, jumped |-> cond]

\* Lines 79-85.
PreJump(p) == JumpIf(p, p.jump_buffer_timer > 0 /\ p.coyote_timer > 0)

\* Line 87 left out: no gravity is added before the kernel call.
Fall_weightless(p, dt) == p

\* Line 87.
Fall(p, dt) ==
    [p EXCEPT !.vel.y = Min(@ + AccelTimesDt(gravity, dt), Speed(terminal_velocity))]

\* Lines 89-94: the kernel call writes pos, vel and on_ground.
Moved(p, m) == [p EXCEPT !.pos = m.pos, !.vel = m.vel, !.on_ground = m.on_ground]

Move(p, w, dt) == Moved(p, move_with_collisions(p.pos, p.size, p.vel, w.solids, dt))

\* Lines 96-102 with the test of line 96 never passing.
PostJump_never(p) == JumpIf(p, FALSE)

\* Lines 96-102.
PostJump(p) == JumpIf(p, p.jump_buffer_timer > 0 /\ p.on_ground)

\* Player::update up to the first trigger with the cut of lines 57-59
\* evaluated after the trigger instead of before it.
Player_before_move_cut_last(p, inp, dt) ==
    [PreJump(Run(Face(TickCoyote(BufferJump(TickInvuln(p, dt), inp, dt), dt), inp), inp, dt))
        EXCEPT !.player = CutJump(@, inp)]

\* Player::update up to the first trigger.
Player_before_move(p, inp, dt) ==
    PreJump(Run(Face(TickCoyote(CutJump(BufferJump(TickInvuln(p, dt), inp, dt), inp), dt),
                     inp), inp, dt))

OrJumped(r, jumped) == [r EXCEPT !.jumped = @ \/ jumped]

\* Lines 96-104 once the kernel call left the player as k: the player, the
\* value returned, and for the step's log whether the trigger of line 79
\* fired (primed) and the player as line 94 left it (kernel).
Player_after_move(b, k) ==
    [ player |-> PostJump(k).player,
      jumped |-> OrJumped(PostJump(k), b.jumped).jumped,
      primed |-> b.jumped,
      kernel |-> k ]

\* Player::update from gravity on, b being the player and whether the
\* first trigger fired.
Player_after_trigger(b, w, dt) == Player_after_move(b, Move(Fall(b.player, dt), w, dt))

\* Player::update: the player it leaves, and whether play_jump is due.
Player_update(p, inp, w, dt) == Player_after_trigger(Player_before_move(p, inp, dt), w, dt)

\* ------------------------------------------------------------------ enemy
Enemy_new(tile_pos, w) ==
    [ pos |-> PlaceOnGround(w, tile_pos, enemy_size),
      vel |-> vec2(0, 0),
      dir |-> -1,
      alive |-> TRUE,
      size |-> enemy_size,
      on_ground |-> FALSE ]

Enemy_reset(e, tile_pos, w) == Enemy_new(tile_pos, w)

Enemy_rect(e) == rect_at(e.pos, e.size)

\* The ledge probe taken under the enemy's centre instead of one pixel
\* beyond its leading edge.
LedgeAhead_centre(e, w) ==
    LET foot_x == e.pos.x + e.size.x \div 2
        foot_y == e.pos.y + e.size.y + Px(1)
        ground == ground_y_for_x(w, foot_x, foot_y)
    IN  ~(ground.some /\ ground.y <= foot_y)

\* The ledge probe of Enemy::update, lines 60-75: TRUE when the enemy turns.
LedgeAhead(e, w) ==
    LET foot_x == IF e.dir >= 0 THEN e.pos.x + e.size.x + Px(1) ELSE e.pos.x - Px(1)
        foot_y == e.pos.y + e.size.y + Px(1)
        ground == ground_y_for_x(w, foot_x, foot_y)
    IN  ~(ground.some /\ ground.y <= foot_y)

Turn(e) == [e EXCEPT !.dir = 0 - e.dir, !.vel.x = Speed(enemy_speed) * (0 - e.dir)]

\* No clamp at the world bounds.
ClampToWorld_none(e, w) == e

\* The world-bounds clamp of Enemy::update, lines 77-84.
ClampToWorld(e, w) ==
    LET world_w == w.width * Tile
    IN  IF e.pos.x <= 0 THEN [e EXCEPT !.pos.x = 0, !.dir = 1]
        ELSE IF e.pos.x + e.size.x >= world_w
             THEN [e EXCEPT !.pos.x = Max(world_w - e.size.x, 0), !.dir = -1]
        ELSE e

\* The wall test and the ledge probe both run, each turning the enemy.
TurnAround_both(e, hit_wall, w) ==
    IF e.on_ground /\ LedgeAhead(e, w)
    THEN (IF hit_wall THEN e ELSE Turn(e))
    ELSE IF hit_wall THEN Turn(e)
    ELSE e

\* Lines 52-75: turn at a wall, else at a ledge when on the ground.
TurnAround(e, hit_wall, w) ==
    IF hit_wall THEN Turn(e)
    ELSE IF e.on_ground /\ LedgeAhead(e, w) THEN Turn(e)
    ELSE e

\* Enemy::update after the kernel call returned m for the velocity
\* (desired_x, vel.y).
Enemy_after_move(e, m, desired_x, w) ==
    ClampToWorld(TurnAround([e EXCEPT !.pos = m.pos, !.vel = m.vel, !.on_ground = m.on_ground],
                            desired_x # 0 /\ m.vel.x = 0, w), w)

Enemy_update(e, w, dt) ==
    IF ~e.alive THEN e
    ELSE Enemy_after_move(
             e,
             move_with_collisions(
                 e.pos, e.size,
                 vec2(Speed(enemy_speed) * e.dir,
                      Min(e.vel.y + AccelTimesDt(gravity, dt), Speed(terminal_velocity))),
                 w.solids, dt),
             Speed(enemy_speed) * e.dir, w)

\* ------------------------------------------------------------------- game
VARIABLES
    state,            \* Game.state: "Title", "Playing", "LevelComplete"
    accumulator,      \* Game.accumulator, in time units
    world,            \* Game.world
    player,           \* Game.player
    enemies,          \* Game.enemies
    coin_spawns,      \* Game.coin_spawns
    mushroom_spawns,  \* Game.mushroom_spawns
    score,            \* Game.score
    high_score,       \* Game.high_score
    input,            \* Game.input, the latched InputState
    level,            \* the level text Game::new parsed
    trace,            \* the latest update(): the Sfx methods it called and its
                      \* calls of reset_level, in order
    prev_state,       \* Game.state before the latest update()
    frame,            \* the latest update()'s frame_dt and key readings
    delivered,        \* the snapshots the latest update()'s fixed steps consumed
    began,            \* the latest update()'s last simulated step, as the game stood
                      \* when the step began
    kernel,           \* the same step's Player::update: the player as the kernel
                      \* call left it, and which jump trigger fired
    moved,            \* the same step, after the player and the enemies moved
    coined,           \* the same step, after collect_coins
    mid,              \* the same step, as the game stood
                      \* between the pickups and handle_player_enemy_collisions
    resolved,         \* the same step, as handle_player_enemy_collisions left it
    peak,             \* the largest value ever written to score
    goals,            \* goal bonuses awarded since the latest reset_level
    sim_steps,        \* fixed steps that ran the simulation so far
    events,           \* frames so far in which a key changed
    call,             \* the arguments of a call of move_with_collisions or of
                      \* rects_intersect made on its own, outside the game
    ret               \* what that call returned

vars == <<state, accumulator, world, player, enemies, coin_spawns, mushroom_spawns,
          score, high_score, input, level, trace, prev_state, frame, delivered, began,
          kernel, moved, coined, mid, resolved, peak, goals, sim_steps, events, call, ret>>

InputState_default ==
    [ move_x |-> 0, jump_pressed |-> FALSE, jump_released |-> FALSE,
      start_pressed |-> FALSE, restart_pressed |-> FALSE, quit_pressed |-> FALSE ]

NoMid == [some |-> FALSE]

\* The Game fields a fixed step reads and writes, with the step's log:
\* trace (calls made), writes (values written to score), began, kernel, moved,
\* coined, mid, resolved, goals (goal bonuses since the latest reset_level),
\* sims (simulated steps).
GameOf(st, w, p, es, cs, ms, sc, hs, gl) ==
    [ state |-> st, world |-> w, player |-> p, enemies |-> es,
      coin_spawns |-> cs, mushroom_spawns |-> ms, score |-> sc, high_score |-> hs,
      trace |-> << >>, writes |-> << >>, began |-> NoMid, kernel |-> NoMid,
      moved |-> NoMid,
      coined |-> NoMid, mid |-> NoMid, resolved |-> NoMid, goals |-> gl, sims |-> 0 ]

Cue(g, c) == [g EXCEPT !.trace = Append(g.trace, c)]

\* reset_level without line 261: the coins stay as collected.
reset_level_keeping_coins(g) ==
    [g EXCEPT !.trace = Append(g.trace, "reset_level"),
              !.goals = 0,
              !.player = Player_reset(g.player, g.world.player_spawn),
              !.world.mushrooms = g.mushroom_spawns,
              !.enemies = [i \in 1..Len(g.enemies) |->
                  IF i <= Len(g.world.enemy_spawns)
                  THEN Enemy_reset(g.enemies[i], g.world.enemy_spawns[i], g.world)
                  ELSE g.enemies[i]]]

reset_level(g) ==
    [g EXCEPT !.trace = Append(g.trace, "reset_level"),
              !.goals = 0,
              !.player = Player_reset(g.player, g.world.player_spawn),
              !.world.coins = g.coin_spawns,
              !.world.mushrooms = g.mushroom_spawns,
              !.enemies = [i \in 1..Len(g.enemies) |->
                  IF i <= Len(g.world.enemy_spawns)
                  THEN Enemy_reset(g.enemies[i], g.world.enemy_spawns[i], g.world)
                  ELSE g.enemies[i]]]

SetScore(g, v) == [g EXCEPT !.score = v, !.writes = Append(g.writes, v)]

\* restart_run without line 275: the score survives the restart.
restart_run_keeping_score(g) == reset_level(g)

restart_run(g) == reset_level(SetScore(g, 0))

\* player_died without line 279: the score survives the death.
player_died_keeping_score(g) == reset_level(Cue(g, "play_hurt"))

player_died(g) == reset_level(SetScore(Cue(g, "play_hurt"), 0))

RaiseHigh(g) == [g EXCEPT !.high_score = Max(@, g.score)]

\* add_score without line 285: high_score is never raised.
add_score_only(g, points) == SetScore(g, g.score + points)

\* u32::saturating_add: the model's scores stay far below u32::MAX.
add_score(g, points) == RaiseHigh(SetScore(g, g.score + points))

CoinHit(p, coin) ==
    LET radius == Tile \div 5
        size == radius * 2
    IN  rects_intersect(Player_rect(p), Rect(coin.x - radius, coin.y - radius, size, size))

\* collect_coins once retain has kept `kept`, collected coins taken.
CoinsTaken(g, collected) ==
    [game |-> IF collected > 0 THEN add_score(g, collected * 200) ELSE g,
     collected |-> collected]

\* collect_coins whose retain counts the hits and drops nothing.
CoinsKept_leaving(g, kept) == CoinsTaken(g, Len(g.world.coins) - Len(kept))

CoinsKept(g, kept) ==
    CoinsTaken([g EXCEPT !.world.coins = kept], Len(g.world.coins) - Len(kept))

\* collect_coins: the game it leaves, and the count it returns.
collect_coins(g) ==
    CoinsKept(g, SelectSeq(g.world.coins, LAMBDA coin : ~CoinHit(g.player, coin)))

MushroomHit(p, pos) ==
    rects_intersect(Player_rect(p), Rect(pos.x, pos.y, mushroom_size.x, mushroom_size.y))

\* collect_mushrooms without line 325: the score is added and the player is
\* left as it was.
MushroomsTaken_unpowered(g, collected) ==
    [game |-> IF collected > 0 THEN add_score(g, collected * 1000) ELSE g,
     collected |-> collected]

MushroomsTaken(g, collected) ==
    [game |-> IF collected > 0
              THEN add_score([g EXCEPT !.player = set_powered(@, TRUE)], collected * 1000)
              ELSE g,
     collected |-> collected]

MushroomsKept(g, kept) ==
    MushroomsTaken([g EXCEPT !.world.mushrooms = kept], Len(g.world.mushrooms) - Len(kept))

\* collect_mushrooms: the game it leaves, and the count it returns.
collect_mushrooms(g) ==
    MushroomsKept(g, SelectSeq(g.world.mushrooms, LAMBDA pos : ~MushroomHit(g.player, pos)))

\* The loop of handle_player_enemy_collisions keeping the last live enemy
\* that intersects the player instead of breaking at the first.
FirstContact_last(p, es) ==
    LET hits == {i \in 1..Len(es) :
                    es[i].alive /\ rects_intersect(Player_rect(p), Enemy_rect(es[i]))}
    IN  IF hits = {} THEN 0 ELSE CHOOSE i \in hits : \A j \in hits : i >= j

\* The index at which the loop of handle_player_enemy_collisions breaks:
\* the first live enemy whose rectangle intersects the player's; 0 if none.
FirstContact(p, es) ==
    LET hits == {i \in 1..Len(es) :
                    es[i].alive /\ rects_intersect(Player_rect(p), Enemy_rect(es[i]))}
    IN  IF hits = {} THEN 0 ELSE CHOOSE i \in hits : \A j \in hits : i <= j

\* The loop's decision without the branch of line 352: invulnerability is
\* not consulted.
ContactOutcome_vulnerable(p, e) ==
    IF p.vel.y > 0 /\ p.pos.y + p.size.y <= e.pos.y + Px(6) THEN "stomp"
    ELSE IF is_powered(p) THEN "power_down"
    ELSE "died"

\* What the loop decides for the enemy it breaks at.
ContactOutcome(p, e) ==
    LET player_rect == Player_rect(p)
        player_bottom == player_rect.y + player_rect.h
        enemy_rect == Enemy_rect(e)
        stomp_threshold == enemy_rect.y + Px(6)
    IN  IF p.vel.y > 0 /\ player_bottom <= stomp_threshold THEN "stomp"
        ELSE IF is_invulnerable(p) THEN "ignore"
        ELSE IF is_powered(p) THEN "power_down"
        ELSE "died"

\* The knockback direction with the comparison of line 357 turned round:
\* toward the enemy.
KnockbackDir_toward(p, e) ==
    IF e.pos.x + e.size.x \div 2 < p.pos.x + p.size.x \div 2 THEN -1 ELSE 1

KnockbackDir(p, e) ==
    LET player_center_x == p.pos.x + p.size.x \div 2
        enemy_center_x == e.pos.x + e.size.x \div 2
    IN  IF enemy_center_x < player_center_x THEN 1 ELSE -1

\* The hurt branch, lines 364-383, on the player.
PowerDown(p, dir) ==
    [start_invulnerability(set_powered(p, FALSE), hurt_invuln_time)
        EXCEPT !.vel = vec2(dir * Speed(hurt_knockback_x), 0 - Speed(hurt_knockback_y)),
               !.pos.x = @ + dir * Px(4),
               !.on_ground = FALSE]

\* The stomp branch without lines 370-372: the enemy stays alive.
Stomp_sparing(g, idx) ==
    Cue(add_score([g EXCEPT !.player.vel.y = 0 - Speed(stomp_bounce)], 100), "play_stomp")

\* The stomp branch, lines 369-375.
Stomp(g, idx) ==
    Cue(add_score([g EXCEPT !.enemies[idx].alive = FALSE,
                            !.player.vel.y = 0 - Speed(stomp_bounce)], 100),
        "play_stomp")

\* What lines 369-387 do for the enemy at idx, given what the loop decided.
ResolveContact(g, idx, outcome) ==
    IF outcome = "stomp" THEN Stomp(g, idx)
    ELSE IF outcome = "power_down" THEN
        Cue([g EXCEPT !.player = PowerDown(@, KnockbackDir(g.player, g.enemies[idx]))],
            "play_hurt")
    ELSE IF outcome = "died" THEN player_died(g)
    ELSE g

ContactAt(g, idx) ==
    IF idx = 0 THEN g ELSE ResolveContact(g, idx, ContactOutcome(g.player, g.enemies[idx]))

handle_player_enemy_collisions(g) == ContactAt(g, FirstContact(g.player, g.enemies))

\* check_goal without the test of line 392: any Playing step completes the
\* level.
check_goal_anywhere(g) ==
    [Cue(Cue(add_score(g, 500), "stop_music"), "play_win")
            EXCEPT !.state = "LevelComplete", !.goals = @ + 1]

\* check_goal without line 396: the bonus is paid and the phase stays.
check_goal_staying(g) ==
    IF rects_intersect(Player_rect(g.player), goal_trigger_rect(g.world))
    THEN [Cue(Cue(add_score(g, 500), "stop_music"), "play_win") EXCEPT !.goals = @ + 1]
    ELSE g

check_goal(g) ==
    IF rects_intersect(Player_rect(g.player), goal_trigger_rect(g.world))
    THEN [Cue(Cue(add_score(g, 500), "stop_music"), "play_win")
            EXCEPT !.state = "LevelComplete", !.goals = @ + 1]
    ELSE g

\* check_fall_off with the comparison of line 402 made non-strict.
check_fall_off_at_limit(g) ==
    LET fall_limit == g.world.height * Tile + Px(200)
    IN  IF g.player.pos.y >= fall_limit THEN player_died(g) ELSE g

check_fall_off(g) ==
    LET fall_limit == g.world.height * Tile + Px(200)
    IN  IF g.player.pos.y > fall_limit THEN player_died(g) ELSE g

\* The step's log of Player::update: the player as the kernel call left
\* it, whether the trigger before the move fired, and the value returned.
MarkKernel(g, pu) ==
    [g EXCEPT !.kernel = [some |-> TRUE, player |-> pu.kernel, primed |-> pu.primed,
                          jumped |-> pu.jumped]]

\* Lines 179-184: the player's update, and play_jump if it jumped.
StepPlayer(g, pu) ==
    IF pu.jumped THEN Cue([MarkKernel(g, pu) EXCEPT !.player = pu.player], "play_jump")
    ELSE [MarkKernel(g, pu) EXCEPT !.player = pu.player]

\* Lines 186-188.
StepEnemies(g) ==
    [g EXCEPT !.enemies =
        [i \in 1..Len(g.enemies) |-> Enemy_update(g.enemies[i], g.world, fixed_dt)]]

\* Lines 190-192.
StepCoins(cc) == IF cc.collected > 0 THEN Cue(cc.game, "play_coin") ELSE cc.game

\* Lines 193-195.
StepMushrooms(cm) == IF cm.collected > 0 THEN Cue(cm.game, "play_powerup") ELSE cm.game

\* The fields of the game a step's log keeps.
Snapshot(g) ==
    [some |-> TRUE, state |-> g.state, player |-> g.player, enemies |-> g.enemies,
     score |-> g.score, high_score |-> g.high_score,
     coins |-> g.world.coins, mushrooms |-> g.world.mushrooms, trace |-> g.trace]

\* The step's log: the game at line 179, before line 190, before line
\* 193, before line 196, and after it.
MarkBegan(g) == [g EXCEPT !.began = Snapshot(g)]

MarkMoved(g) == [g EXCEPT !.moved = Snapshot(g)]

MarkCoined(g) == [g EXCEPT !.coined = Snapshot(g)]

MarkMid(g) == [g EXCEPT !.mid = Snapshot(g), !.sims = @ + 1]

MarkResolved(g) == [g EXCEPT !.resolved = Snapshot(g)]

\* The Playing arm with line 196 moved up before the pickups of lines
\* 190-195.
Simulate_contact_first(g, inp) ==
    check_fall_off(check_goal(
        StepMushrooms(collect_mushrooms(MarkCoined(
            StepCoins(collect_coins(
                MarkResolved(handle_player_enemy_collisions(MarkMid(MarkMoved(
                    StepEnemies(
                        StepPlayer(MarkBegan(g),
                                   Player_update(g.player, inp, g.world, fixed_dt))))))))))))))

\* The Playing arm of fixed_update past the quit and restart returns.
Simulate(g, inp) ==
    check_fall_off(check_goal(MarkResolved(handle_player_enemy_collisions(MarkMid(
        StepMushrooms(collect_mushrooms(MarkCoined(
            StepCoins(collect_coins(MarkMoved(
                StepEnemies(
                    StepPlayer(MarkBegan(g),
                               Player_update(g.player, inp, g.world, fixed_dt))))))))))))))

\* The quit branch with a run reset added.
Quit_resetting(g) == [restart_run(Cue(g, "stop_music")) EXCEPT !.state = "Title"]

\* Lines 167-171 and 201-205.
Quit(g) == [Cue(g, "stop_music") EXCEPT !.state = "Title"]

\* fixed_update testing restart_pressed before quit_pressed.
fixed_update_restart_first(g, inp) ==
    IF g.state = "Title" THEN
        IF inp.start_pressed
        THEN Cue(restart_run([g EXCEPT !.state = "Playing"]), "start_music")
        ELSE g
    ELSE IF g.state = "Playing" THEN
        IF inp.restart_pressed THEN Cue(restart_run(g), "start_music")
        ELSE IF inp.quit_pressed THEN Quit(g)
        ELSE Simulate(g, inp)
    ELSE
        IF inp.restart_pressed
        THEN Cue([restart_run(g) EXCEPT !.state = "Playing"], "start_music")
        ELSE IF inp.quit_pressed THEN Quit(g)
        ELSE g

\* fixed_update whose Title arm hands a jump edge on to the run it starts.
fixed_update_carrying_jump(g, inp) ==
    IF g.state = "Title" THEN
        IF inp.start_pressed
        THEN [Cue(restart_run([g EXCEPT !.state = "Playing"]), "start_music")
                 EXCEPT !.player.jump_buffer_timer =
                            IF inp.jump_pressed THEN jump_buffer_time ELSE @]
        ELSE g
    ELSE IF g.state = "Playing" THEN
        IF inp.quit_pressed THEN Quit(g)
        ELSE IF inp.restart_pressed THEN Cue(restart_run(g), "start_music")
        ELSE Simulate(g, inp)
    ELSE
        IF inp.quit_pressed THEN Quit(g)
        ELSE IF inp.restart_pressed
        THEN Cue([restart_run(g) EXCEPT !.state = "Playing"], "start_music")
        ELSE g

\* fixed_update whose LevelComplete arm goes on simulating when no key asks
\* for anything.
fixed_update_simulating_complete(g, inp) ==
    IF g.state = "Title" THEN
        IF inp.start_pressed
        THEN Cue(restart_run([g EXCEPT !.state = "Playing"]), "start_music")
        ELSE g
    ELSE IF g.state = "Playing" THEN
        IF inp.quit_pressed THEN Quit(g)
        ELSE IF inp.restart_pressed THEN Cue(restart_run(g), "start_music")
        ELSE Simulate(g, inp)
    ELSE
        IF inp.quit_pressed THEN Quit(g)
        ELSE IF inp.restart_pressed
        THEN Cue([restart_run(g) EXCEPT !.state = "Playing"], "start_music")
        ELSE Simulate(g, inp)

fixed_update(g, inp) ==
    IF g.state = "Title" THEN
        IF inp.start_pressed
        THEN Cue(restart_run([g EXCEPT !.state = "Playing"]), "start_music")
        ELSE g
    ELSE IF g.state = "Playing" THEN
        IF inp.quit_pressed THEN Quit(g)
        ELSE IF inp.restart_pressed THEN Cue(restart_run(g), "start_music")
        ELSE Simulate(g, inp)
    ELSE
        IF inp.quit_pressed THEN Quit(g)
        ELSE IF inp.restart_pressed
        THEN Cue([restart_run(g) EXCEPT !.state = "Playing"], "start_music")
        ELSE g

\* capture_input with = for |= : the latched edges are overwritten.
capture_input_overwriting(inp, keys) == keys

\* keys: what read_move_x, read_jump_pressed, read_jump_released and
\* is_key_pressed(Enter / R / Escape) return in this frame.
capture_input(inp, keys) ==
    [ move_x |-> keys.move_x,
      jump_pressed |-> inp.jump_pressed \/ keys.jump_pressed,
      jump_released |-> inp.jump_released \/ keys.jump_released,
      start_pressed |-> inp.start_pressed \/ keys.start_pressed,
      restart_pressed |-> inp.restart_pressed \/ keys.restart_pressed,
      quit_pressed |-> inp.quit_pressed \/ keys.quit_pressed ]

\* consume_fixed_input without lines 418-422.
ClearEdges_none(inp) == inp

\* consume_fixed_input: the snapshot is the input as it stood; this is what
\* it leaves in Game.input.
ClearEdges(inp) ==
    [inp EXCEPT !.jump_pressed = FALSE, !.jump_released = FALSE, !.start_pressed = FALSE,
                !.restart_pressed = FALSE, !.quit_pressed = FALSE]

\* The while loop of Game::update.
RECURSIVE RunSteps(_, _, _, _)
RunSteps(g, inp, acc, seen) ==
    IF acc >= fixed_dt
    THEN RunSteps(fixed_update(g, inp), ClearEdges(inp), acc - fixed_dt, Append(seen, inp))
    ELSE [game |-> g, input |-> inp, accumulator |-> acc, delivered |-> seen]

MaxOf(seq, floor) ==
    IF seq = << >> THEN floor
    ELSE LET m == CHOOSE v \in {seq[i] : i \in 1..Len(seq)} :
                      \A i \in 1..Len(seq) : seq[i] <= v
         IN  Max(m, floor)

\* Line 138 without the clamp.
ClampFrame_none(frame_dt) == frame_dt

\* frame_dt.min(max_frame_time), line 138.
ClampFrame(frame_dt) == Min(frame_dt, max_frame_time)

\* Game::update.  (The result of the loop is bound once by \E over a
\* one-element set.)
Update(frame_dt, keys) ==
    \E r \in {RunSteps(GameOf(state, world, player, enemies, coin_spawns, mushroom_spawns,
                               score, high_score, goals),
                        capture_input(input, keys),
                        accumulator + ClampFrame(frame_dt), << >>)} :
        /\ state' = r.game.state
        /\ accumulator' = r.accumulator
        /\ world' = r.game.world
        /\ player' = r.game.player
        /\ enemies' = r.game.enemies
        /\ coin_spawns' = r.game.coin_spawns
        /\ mushroom_spawns' = r.game.mushroom_spawns
        /\ score' = r.game.score
        /\ high_score' = r.game.high_score
        /\ input' = r.input
        /\ level' = level
        /\ trace' = r.game.trace
        /\ prev_state' = state
        /\ frame' = [dt |-> frame_dt, keys |-> keys]
        /\ delivered' = r.delivered
        /\ began' = r.game.began
        /\ kernel' = r.game.kernel
        /\ moved' = r.game.moved
        /\ coined' = r.game.coined
        /\ mid' = r.game.mid
        /\ resolved' = r.game.resolved
        /\ peak' = MaxOf(r.game.writes, peak)
        /\ goals' = r.game.goals
        /\ sim_steps' = sim_steps + r.game.sims
        /\ UNCHANGED <<call, ret>>

\* No call of the kernel on its own is under way.
NoCall == call = NoMid /\ ret = NoMid

\* Game::new over a parsed level.
Game_new(lines) ==
    LET w == from_ascii(lines)
    IN  /\ state = "Title"
        /\ accumulator = 0
        /\ world = w
        /\ player = Player_new(w.player_spawn)
        /\ enemies = [i \in 1..Len(w.enemy_spawns) |-> Enemy_new(w.enemy_spawns[i], w)]
        /\ coin_spawns = w.coins
        /\ mushroom_spawns = w.mushrooms
        /\ score = 0
        /\ high_score = 0
        /\ input = InputState_default
        /\ level = lines
        /\ trace = << >>
        /\ prev_state = "Title"
        /\ frame = [dt |-> 0, keys |-> InputState_default]
        /\ delivered = << >>
        /\ began = NoMid
        /\ kernel = NoMid
        /\ moved = NoMid
        /\ coined = NoMid
        /\ mid = NoMid
        /\ resolved = NoMid
        /\ peak = 0
        /\ goals = 0
        /\ sim_steps = 0
        /\ events = 0

\* ------------------------------------------------------------ environment
\* The model stops offering frames after MaxSteps simulated steps, and
\* offers at most MaxEvents frames in which a key changes.
MaxSteps == 46
MaxEvents == 2

Keys(m, jp, jr, st, rs, q) ==
    [ move_x |-> m, jump_pressed |-> jp, jump_released |-> jr,
      start_pressed |-> st, restart_pressed |-> rs, quit_pressed |-> q ]

\* A frame in which no key changes: no edge, the direction keys as held.
Held == Keys(input.move_x, FALSE, FALSE, FALSE, FALSE, FALSE)

\* One render frame: main.rs calls Game::update once per frame.
Frame(dt, keys) ==
    /\ sim_steps < MaxSteps
    /\ keys # Held => events < MaxEvents
    /\ Update(dt, keys)
    /\ events' = IF keys = Held THEN events ELSE events + 1

\* The levels of the main specification.  LevelMain: on one floor, a
\* mushroom and an enemy to the player's left, a coin, an enemy and the
\* goal to the right.  LevelDrop: the player spawns four tiles above the
\* goal's floor and falls into the pole.  LevelStomp: the player spawns in
\* the air over a mushroom, an enemy walking in under it.
LevelMain ==
    << <<"E", "M", "P", "C", "E", "G">>,
       <<"#", "#", "#", "#", "#", "#">> >>

LevelDrop == << <<"P">>, <<".">>, <<".">>, <<".">>, <<"G">>, <<"#">> >>

LevelStomp ==
    << <<".", "P", ".">>,
       <<"C", "C", "C">>,
       <<"G", "M", "E">>,
       <<"#", "#", "#">> >>

LevelLedge ==
    << <<".", "E", ".", "P", "G">>,
       <<".", "#", ".", "C", "#">> >>

LevelPair ==
    << <<".", "P", ".", "G">>,
       <<".", ".", ".", ".">>,
       <<"E", "E", ".", ".">>,
       <<"#", "#", "#", "#">> >>

Levels == {LevelMain, LevelDrop, LevelStomp, LevelLedge, LevelPair}

Init == NoCall /\ \E lines \in Levels : Game_new(lines)

\* The frames of the main specification, each as long as one fixed step.
\* No key changes.
Wait == Frame(fixed_dt, Held)

\* A direction key goes down or up.
Steer ==
    \E m \in {-1, 0, 1} :
        /\ m # input.move_x
        /\ Frame(fixed_dt, Keys(m, FALSE, FALSE, FALSE, FALSE, FALSE))

PressEnter == Frame(fixed_dt, Keys(input.move_x, FALSE, FALSE, TRUE, FALSE, FALSE))

PressR == Frame(fixed_dt, Keys(input.move_x, FALSE, FALSE, FALSE, TRUE, FALSE))

PressEscape == Frame(fixed_dt, Keys(input.move_x, FALSE, FALSE, FALSE, FALSE, TRUE))

\* Escape and R go down in the same frame.
PressEscapeAndR == Frame(fixed_dt, Keys(input.move_x, FALSE, FALSE, FALSE, TRUE, TRUE))

\* On the title screen the jump key goes down, or Enter together with R
\* or Escape, with any of the other three.
PressOnTitle ==
    /\ state = "Title"
    /\ \E st, jp, rs, q \in BOOLEAN :
           /\ jp \/ (st /\ (rs \/ q))
           /\ Frame(fixed_dt, Keys(input.move_x, jp, FALSE, st, rs, q))

Next ==
    Wait \/ Steer \/ PressEnter \/ PressR \/ PressEscape \/ PressEscapeAndR \/ PressOnTitle

Spec == Init /\ [][Next]_vars

\* ------------------------------------------------------ frames of any length
\* The loop specification: frames of no time, a third of a fixed step and
\* more than max_frame_time, on LevelDrop.
FrameTimes == {0, 20, 1000}

\* One key event: a jump press, a jump release, both in one frame, Enter,
\* R, Escape.
EdgeKeys ==
    { Keys(input.move_x, TRUE, FALSE, FALSE, FALSE, FALSE),
      Keys(input.move_x, FALSE, TRUE, FALSE, FALSE, FALSE),
      Keys(input.move_x, TRUE, TRUE, FALSE, FALSE, FALSE),
      Keys(input.move_x, FALSE, FALSE, TRUE, FALSE, FALSE),
      Keys(input.move_x, FALSE, FALSE, FALSE, TRUE, FALSE),
      Keys(input.move_x, FALSE, FALSE, FALSE, FALSE, TRUE) }

InitLoop == NoCall /\ Game_new(LevelDrop)

\* The loop specification stops offering frames after MaxLoopSteps
\* simulated steps.
MaxLoopSteps == 16

LoopFrame(dt, keys) == sim_steps < MaxLoopSteps /\ Frame(dt, keys)

Render == \E dt \in FrameTimes : LoopFrame(dt, Held)

RenderSteer ==
    \E dt \in FrameTimes, m \in {-1, 0, 1} :
        /\ m # input.move_x
        /\ LoopFrame(dt, Keys(m, FALSE, FALSE, FALSE, FALSE, FALSE))

RenderPress == \E dt \in FrameTimes, keys \in EdgeKeys : LoopFrame(dt, keys)

NextLoop == Render \/ RenderSteer \/ RenderPress

SpecLoop == InitLoop /\ [][NextLoop]_vars

\* The specification of the jump: the start key, then direction keys and
\* the jump key going down and up, one fixed step per frame.  LevelHop: the
\* player spawns one tile above the floor.  LevelWalk: the player spawns on
\* a one-tile platform with nothing beside it.
LevelHop ==
    << <<"P", ".", ".", "G">>,
       <<".", ".", ".", ".">>,
       <<"#", ".", ".", "#">> >>

LevelWalk ==
    << <<"P", ".", ".", "G">>,
       <<"#", ".", ".", "#">> >>

JumpLevels == {LevelHop, LevelWalk}

InitJump == NoCall /\ \E lines \in JumpLevels : Game_new(lines)

MaxJumpSteps == 20

MaxJumpEvents == 2

\* Enter on the title screen.
JumpStart ==
    /\ state = "Title"
    /\ Update(fixed_dt, Keys(0, FALSE, FALSE, TRUE, FALSE, FALSE))
    /\ events' = events

\* One render frame of play.
JumpFrame(keys) ==
    /\ state = "Playing"
    /\ sim_steps < MaxJumpSteps
    /\ keys # Held => events < MaxJumpEvents
    /\ Update(fixed_dt, keys)
    /\ events' = IF keys = Held THEN events ELSE events + 1

JumpWait == JumpFrame(Held)

JumpSteer ==
    \E m \in {-1, 0, 1} :
        /\ m # input.move_x
        /\ JumpFrame(Keys(m, FALSE, FALSE, FALSE, FALSE, FALSE))

JumpPress == JumpFrame(Keys(input.move_x, TRUE, FALSE, FALSE, FALSE, FALSE))

JumpRelease == JumpFrame(Keys(input.move_x, FALSE, TRUE, FALSE, FALSE, FALSE))

\* The jump key goes down and up between two frames.
JumpTap == JumpFrame(Keys(input.move_x, TRUE, TRUE, FALSE, FALSE, FALSE))

NextJump == JumpStart \/ JumpWait \/ JumpSteer \/ JumpPress \/ JumpRelease \/ JumpTap

SpecJump == InitJump /\ [][NextJump]_vars

\* The specification of a hurt: the start and jump keys, one
\* fixed step per frame, for long enough that the invulnerability a
\* power-down hit starts runs out and an enemy crosses a corridor twice.
\* LevelHurt: the player drops onto a mushroom and an enemy walks up to it
\* from the right.
LevelHurt ==
    << <<".", "P", ".", ".", ".", "G">>,
       <<".", "M", ".", "E", ".", ".">>,
       <<"#", "#", "#", "#", "#", "#">> >>

\* LevelWall: an enemy patrols a corridor between two walls, the left one
\* with no floor under it.
LevelWall ==
    << <<"P", ".", ".", ".", ".", ".">>,
       <<"#", "#", "E", ".", "#", "G">>,
       <<"#", ".", "#", "#", "#", "#">> >>

\* LevelEdge: an enemy in each outer column, neither with ground under it,
\* the right one with a wall on its left.
LevelEdge ==
    << <<"E", ".", "P", "#", "E">>,
       <<".", "#", "#", "G", ".">> >>

HurtLevels == {LevelHurt, LevelWall, LevelEdge}

InitHurt == NoCall /\ \E lines \in HurtLevels : Game_new(lines)

MaxHurtSteps == 90

MaxHurtEvents == 2

\* Enter on the title screen.
HurtStart ==
    /\ state = "Title"
    /\ Update(fixed_dt, Keys(0, FALSE, FALSE, TRUE, FALSE, FALSE))
    /\ events' = events

\* One render frame of play.
HurtFrame(keys) ==
    /\ state = "Playing"
    /\ sim_steps < MaxHurtSteps
    /\ keys # Held => events < MaxHurtEvents
    /\ Update(fixed_dt, keys)
    /\ events' = IF keys = Held THEN events ELSE events + 1

HurtWait == HurtFrame(Held)

HurtPress == HurtFrame(Keys(input.move_x, TRUE, FALSE, FALSE, FALSE, FALSE))

NextHurt == HurtStart \/ HurtWait \/ HurtPress

SpecHurt == InitHurt /\ [][NextHurt]_vars

\* The specification of the kernel: move_with_collisions called on its own
\* with arguments drawn from a grid of positions around two solid tiles,
\* velocities along and against each axis and zero (12 px per fixed step,
\* under the terminal velocity), and two time steps.
MaxCoord == 2

KernelCoords == {k * (Tile \div 2) : k \in (0 - MaxCoord)..MaxCoord}

KernelSpeeds == {0 - Speed(720), 0, Speed(720)}

KernelSolids ==
    { << >>,
      <<Rect(0, 0, Tile, Tile)>>,
      <<Rect(0, 0, Tile, Tile), Rect(Tile, 0, Tile, Tile)>> }

KernelTimes == {20, fixed_dt}

KernelCalls ==
    [ some : {TRUE},
      pos : [x : KernelCoords, y : KernelCoords],
      size : {player_size, enemy_size},
      vel : [x : KernelSpeeds, y : KernelSpeeds],
      solids : KernelSolids,
      dt : KernelTimes ]

InitKernel == Game_new(LevelDrop) /\ call \in KernelCalls /\ ret = NoMid

\* The call returns.
KernelReturn ==
    /\ call.some /\ ~ret.some
    /\ \E m \in {move_with_collisions(call.pos, call.size, call.vel, call.solids, call.dt)} :
           ret' = [some |-> TRUE, pos |-> m.pos, vel |-> m.vel, on_ground |-> m.on_ground]
    /\ UNCHANGED <<state, accumulator, world, player, enemies, coin_spawns, mushroom_spawns,
                   score, high_score, input, level, trace, prev_state, frame, delivered,
                   began, kernel, moved, coined, mid, resolved, peak, goals, sim_steps,
                   events, call>>

\* The next call: the same actor, solids and time step, from another
\* position with another velocity.
KernelCall ==
    /\ ret.some
    /\ call' \in [ some : {TRUE},
                    pos : [x : KernelCoords, y : KernelCoords],
                    size : {call.size},
                    vel : [x : KernelSpeeds, y : KernelSpeeds],
                    solids : {call.solids},
                    dt : {call.dt} ]
    /\ ret' = NoMid
    /\ UNCHANGED <<state, accumulator, world, player, enemies, coin_spawns, mushroom_spawns,
                   score, high_score, input, level, trace, prev_state, frame, delivered,
                   began, kernel, moved, coined, mid, resolved, peak, goals, sim_steps,
                   events>>

NextKernel == KernelReturn \/ KernelCall

SpecKernel == InitKernel /\ [][NextKernel]_vars

\* The specification of the overlap test: rects_intersect called on its
\* own on every pair of rectangles with corners on a small grid of whole
\* pixels and sides of at least one pixel, in both orders.
MaxCorner == 2

MaxSide == 2

GridRects ==
    { Rect(Px(x), Px(y), Px(w), Px(h)) :
          x \in 0..MaxCorner, y \in 0..MaxCorner, w \in 1..MaxSide, h \in 1..MaxSide }

InitRects ==
    /\ Game_new(LevelDrop)
    /\ call \in [some : {TRUE}, a : GridRects, b : GridRects]
    /\ ret = NoMid

\* The two calls return.
RectsReturn ==
    /\ call.some /\ ~ret.some
    /\ ret' = [some |-> TRUE, ab |-> rects_intersect(call.a, call.b),
               ba |-> rects_intersect(call.b, call.a)]
    /\ UNCHANGED <<state, accumulator, world, player, enemies, coin_spawns, mushroom_spawns,
                   score, high_score, input, level, trace, prev_state, frame, delivered,
                   began, kernel, moved, coined, mid, resolved, peak, goals, sim_steps,
                   events, call>>

\* The next pair: the second rectangle against another one.
RectsCall ==
    /\ ret.some
    /\ call' \in [some : {TRUE}, a : {call.b}, b : GridRects]
    /\ ret' = NoMid
    /\ UNCHANGED <<state, accumulator, world, player, enemies, coin_spawns, mushroom_spawns,
                   score, high_score, input, level, trace, prev_state, frame, delivered,
                   began, kernel, moved, coined, mid, resolved, peak, goals, sim_steps,
                   events>>

NextRects == RectsReturn \/ RectsCall

SpecRects == InitRects /\ [][NextRects]_vars

\* ------------------------------------------------------------- properties
Phases == {"Title", "Playing", "LevelComplete"}

\* The call c is in the log.
Called(log, c) == \E i \in 1..Len(log) : log[i] = c

InTrace(c) == Called(trace, c)

\* The enemy the loop of handle_player_enemy_collisions stopped at in the
\* latest simulated step: the first live enemy overlapping the player; 0
\* if there was none or no step simulated.
Contact == IF mid.some THEN FirstContact(mid.player, mid.enemies) ELSE 0

\* The stomp condition: falling, and the bottom edge at most 6 px below
\* the enemy's top edge.
StompCase(p, e) == p.vel.y > 0 /\ p.pos.y + p.size.y <= e.pos.y + Px(6)

PlayerAtSpawn(p) ==
    /\ p.pos = SpawnPos(world.player_spawn)
    /\ p.vel = vec2(0, 0)
    /\ ~p.powered
    /\ p.invuln_timer = 0
    /\ p.jump_buffer_timer = 0
    /\ p.coyote_timer = 0

EnemiesAtSpawn(es) ==
    \A i \in 1..Len(es) :
        /\ es[i].alive
        /\ es[i].pos = PlaceOnGround(world, world.enemy_spawns[i], enemy_size)
        /\ es[i].vel = vec2(0, 0)

\* C1.  The phase is always Title, Playing or LevelComplete and starts as
\* Title; a step changes it only Title->Playing on a delivered start,
\* Playing->Title on a delivered quit, Playing->LevelComplete with the
\* player's rectangle on the goal trigger at the end of the step,
\* LevelComplete->Title on quit, LevelComplete->Playing on restart.
PhaseStep ==
    \/ state' = state
    \/ /\ Len(delivered') = 1
       /\ \/ state = "Title" /\ state' = "Playing" /\ delivered'[1].start_pressed
          \/ state = "Playing" /\ state' = "Title" /\ delivered'[1].quit_pressed
          \/ /\ state = "Playing" /\ state' = "LevelComplete"
             /\ rects_intersect(Player_rect(player'), goal_trigger_rect(world'))
          \/ state = "LevelComplete" /\ state' = "Title" /\ delivered'[1].quit_pressed
          \/ state = "LevelComplete" /\ state' = "Playing" /\ delivered'[1].restart_pressed

C1_PhaseTransitions == state = "Title" /\ [](state \in Phases) /\ [][PhaseStep]_vars

\* A level was completed and then quit: every phase has been visited.
C1_Witness == state = "Title" /\ prev_state = "LevelComplete" /\ peak >= 500

\* C2.  When the first live enemy overlapping the player is touched
\* without the stomp condition, and the player is neither invulnerable
\* nor powered, handle_player_enemy_collisions leaves score 0, the coins
\* and mushrooms of the spawn templates, the player and every enemy as
\* spawned, and the phase Playing.
DeathCase ==
    /\ Contact # 0
    /\ ~StompCase(mid.player, mid.enemies[Contact])
    /\ mid.player.invuln_timer = 0
    /\ ~mid.player.powered

C2_DeathByContact ==
    DeathCase =>
        /\ resolved.score = 0
        /\ resolved.coins = coin_spawns
        /\ resolved.mushrooms = mushroom_spawns
        /\ resolved.player = Player_new(world.player_spawn)
        /\ \A i \in 1..Len(resolved.enemies) :
               resolved.enemies[i] = Enemy_new(world.enemy_spawns[i], world)
        /\ resolved.state = "Playing"
        /\ Called(resolved.trace, "play_hurt")

\* A death with points on the board and a coin gone.
C2_Witness == DeathCase /\ mid.score > 0 /\ mid.coins # coin_spawns

\* C3.  The number of enemies never changes, and an update that reset the
\* run (Title start, restart, death) leaves coins and mushrooms equal, in
\* order, to those of the level's parse, every enemy alive at its
\* spawn-derived position with zero velocity, and the player at the spawn
\* position with zero velocity, unpowered, not invulnerable, both jump
\* timers 0.
C3_ResetRoundTrip ==
    /\ Len(enemies) = Len(from_ascii(level).enemy_spawns)
    /\ InTrace("reset_level") =>
           /\ world.coins = from_ascii(level).coins
           /\ world.mushrooms = from_ascii(level).mushrooms
           /\ EnemiesAtSpawn(enemies)
           /\ PlayerAtSpawn(player)

\* A reset after a coin was taken, an enemy had walked and the player had
\* moved.
C3_Witness ==
    /\ InTrace("reset_level")
    /\ mid.some
    /\ mid.coins # from_ascii(level).coins
    /\ ~EnemiesAtSpawn(mid.enemies)
    /\ mid.player.pos # SpawnPos(world.player_spawn)

\* C4.  The step that consumes quit_pressed in Playing sets the phase to
\* Title and leaves score, high_score, coins, mushrooms, the player and
\* the enemies as they were; it simulates nothing.
QuitStep ==
    (state = "Playing" /\ Len(delivered') >= 1 /\ delivered'[1].quit_pressed) =>
        /\ state' = "Title"
        /\ score' = score
        /\ high_score' = high_score
        /\ world'.coins = world.coins
        /\ world'.mushrooms = world.mushrooms
        /\ player' = player
        /\ enemies' = enemies
        /\ sim_steps' = sim_steps
        /\ ~Called(trace', "reset_level")

C4_QuitFromPlaying == [][QuitStep]_vars

\* A quit from a run in progress: the enemies have left their spawns.
C4_Witness ==
    /\ prev_state = "Playing"
    /\ state = "Title"
    /\ Len(delivered) = 1
    /\ delivered[1].quit_pressed
    /\ ~EnemiesAtSpawn(enemies)

\* C5.  high_score is at least score, equals the largest value score has
\* held, and never decreases.
C5_HighScoreRunningMax ==
    /\ [](high_score >= score /\ high_score = peak)
    /\ [][high_score' >= high_score]_vars

\* A reset zeroed a positive score and high_score kept it.
C5_Witness == InTrace("reset_level") /\ score = 0 /\ high_score > 0

\* C6.  Each update adds min(frame_dt, max_frame_time) to the accumulator,
\* runs floor(accumulator / fixed_dt) fixed steps and leaves the remainder,
\* 0 <= accumulator < fixed_dt; the steps of one update are at most
\* floor((fixed_dt + max_frame_time) / fixed_dt).
TimeStep ==
    /\ Len(delivered') = (accumulator + Min(frame'.dt, max_frame_time)) \div fixed_dt
    /\ accumulator' = (accumulator + Min(frame'.dt, max_frame_time)) % fixed_dt
    /\ 0 <= accumulator' /\ accumulator' < fixed_dt
    /\ Len(delivered') <= (fixed_dt + max_frame_time) \div fixed_dt

C6_Accumulator == [][TimeStep]_vars

\* A frame past max_frame_time, clamped, with a remainder carried.
C6_Witness ==
    /\ frame.dt > max_frame_time
    /\ Len(delivered) = max_frame_time \div fixed_dt
    /\ accumulator > 0

\* C7.  An edge captured in a frame that runs no fixed step stays latched,
\* is OR-combined with the edges of later frames, and reaches the first
\* fixed step that runs.
Edges == {"jump_pressed", "jump_released", "start_pressed", "restart_pressed", "quit_pressed"}

LatchStep ==
    \A e \in Edges :
        IF Len(delivered') = 0
        THEN input'[e] = (input[e] \/ frame'.keys[e])
        ELSE delivered'[1][e] = (input[e] \/ frame'.keys[e])

C7_EdgesLatched == [][LatchStep]_vars

\* A step received Enter and Escape, pressed in two earlier frames that
\* ran no step.
C7_Witness ==
    /\ Len(delivered) >= 1
    /\ delivered[1].start_pressed /\ delivered[1].quit_pressed
    /\ \A e \in Edges : ~frame.keys[e]

\* C8.  Consuming the snapshot clears the five edges: of the steps of one
\* update only the first sees an edge, none is left latched after it, and
\* move_x is the same in every step.
NoEdges(inp) == \A e \in Edges : ~inp[e]

C8_EdgesDeliveredOnce ==
    Len(delivered) >= 1 =>
        /\ NoEdges(input)
        /\ input.move_x = delivered[1].move_x
        /\ \A k \in 2..Len(delivered) :
               NoEdges(delivered[k]) /\ delivered[k].move_x = delivered[1].move_x

\* A jump press delivered in a frame of several steps, a direction held.
C8_Witness ==
    /\ Len(delivered) >= 2
    /\ delivered[1].jump_pressed
    /\ delivered[2].move_x # 0

\* C9.  When the first live enemy overlapping the player meets the stomp
\* condition, handle_player_enemy_collisions leaves that enemy not alive,
\* the player's vel.y at -stomp_bounce and score 100 higher, whatever
\* powered and the invulnerability timer are; powered is unchanged and
\* nothing is reset.
StompTouch == Contact # 0 /\ StompCase(mid.player, mid.enemies[Contact])

C9_Stomp ==
    StompTouch =>
        /\ ~resolved.enemies[Contact].alive
        /\ resolved.player.vel.y = 0 - Speed(stomp_bounce)
        /\ resolved.score = mid.score + 100
        /\ resolved.player.powered = mid.player.powered
        /\ ~Called(resolved.trace, "reset_level")
        /\ resolved.coins = mid.coins /\ resolved.mushrooms = mid.mushrooms
        /\ resolved.player.pos = mid.player.pos
        /\ \A i \in 1..Len(mid.enemies) : i # Contact => resolved.enemies[i] = mid.enemies[i]

\* A stomp by a powered player.
C9_Witness == StompTouch /\ mid.player.powered /\ Called(trace, "play_stomp")

\* C10.  While the invulnerability timer is positive, a non-stomp overlap
\* with a live enemy changes nothing: score, high_score, phase, the
\* enemies, the player and the collectibles are as before, and nothing is
\* reset.
IgnoredTouch ==
    /\ Contact # 0
    /\ ~StompCase(mid.player, mid.enemies[Contact])
    /\ mid.player.invuln_timer > 0

C10_Invulnerable ==
    IgnoredTouch =>
        /\ resolved.score = mid.score
        /\ resolved.high_score = mid.high_score
        /\ resolved.state = mid.state
        /\ resolved.enemies = mid.enemies
        /\ resolved.enemies[Contact].alive
        /\ resolved.player = mid.player
        /\ resolved.coins = mid.coins /\ resolved.mushrooms = mid.mushrooms
        /\ resolved.trace = mid.trace

\* An invulnerable player overlapping a live enemy.
C10_Witness == IgnoredTouch /\ mid.player.invuln_timer < hurt_invuln_time

\* C11.  When the first live enemy overlapping a powered, not invulnerable
\* player fails the stomp condition, the player ends the step unpowered,
\* with the invulnerability timer at hurt_invuln_time, vel.x =
\* dir * hurt_knockback_x with dir away from the enemy, vel.y =
\* -hurt_knockback_y and on_ground false; the player does not die, score
\* is unchanged, the enemy stays alive and nothing is reset.
PowerDownTouch ==
    /\ Contact # 0
    /\ ~StompCase(mid.player, mid.enemies[Contact])
    /\ mid.player.invuln_timer = 0
    /\ mid.player.powered

\* +1 if the enemy's centre is left of the player's centre, else -1.
AwayFrom(p, e) == IF 2 * e.pos.x + e.size.x < 2 * p.pos.x + p.size.x THEN 1 ELSE -1

C11_PowerDown ==
    PowerDownTouch =>
        /\ ~resolved.player.powered
        /\ resolved.player.invuln_timer = hurt_invuln_time
        /\ resolved.player.vel.x =
               AwayFrom(mid.player, mid.enemies[Contact]) * Speed(hurt_knockback_x)
        /\ resolved.player.vel.y = 0 - Speed(hurt_knockback_y)
        /\ ~resolved.player.on_ground
        /\ player = resolved.player
        /\ resolved.score = mid.score /\ resolved.high_score = mid.high_score
        /\ resolved.enemies = mid.enemies
        /\ resolved.enemies[Contact].alive
        /\ resolved.coins = mid.coins /\ resolved.mushrooms = mid.mushrooms
        /\ resolved.state = "Playing"
        /\ ~InTrace("reset_level")

\* A powered player hit from the left and knocked to the right.
C11_Witness == PowerDownTouch /\ resolved.player.vel.x > 0 /\ mid.score >= 1000

\* C12.  In every Playing step each coin whose pickup square (side
\* 0.4 * tile_size, centred on the coin) intersects the player's rectangle
\* after movement is removed from world.coins, the others remain in their
\* original relative order, and score grows by 200 per removed coin; a
\* removed coin is not in world.coins again until a reset restores it.
PickupSide == (4 * Tile) \div 10

Touches(p, coin) ==
    /\ p.pos.x < coin.x + PickupSide \div 2
    /\ p.pos.x + p.size.x > coin.x - PickupSide \div 2
    /\ p.pos.y < coin.y + PickupSide \div 2
    /\ p.pos.y + p.size.y > coin.y - PickupSide \div 2

Untouched(p, coins) == SelectSeq(coins, LAMBDA coin : ~Touches(p, coin))

Coins(seq) == {seq[i] : i \in 1..Len(seq)}

CoinStep ==
    /\ moved'.some =>
          /\ moved'.coins = world.coins /\ moved'.score = score
          /\ coined'.coins = Untouched(moved'.player, world.coins)
          /\ coined'.score = score + 200 * (Len(world.coins) - Len(coined'.coins))
          /\ ~Called(trace', "reset_level") => world'.coins = coined'.coins
    /\ ~Called(trace', "reset_level") =>
          /\ Coins(world'.coins) \subseteq Coins(world.coins)
          /\ Len(world'.coins) <= Len(world.coins)
    /\ ~moved'.some /\ ~Called(trace', "reset_level") => world'.coins = world.coins

C12_CoinPickup == [][CoinStep]_vars

\* The middle coin of three is taken and the outer two stay, in order.
C12_Witness ==
    /\ coined.some
    /\ Len(moved.coins) = 3
    /\ coined.coins = <<moved.coins[1], moved.coins[3]>>
    /\ coined.score = moved.score + 200

\* C13.  In every Playing step each mushroom whose rectangle intersects
\* the player's rectangle is removed, score grows by 1000 per removed
\* mushroom, and the player becomes powered; a powered player stays powered
\* until a power-down hit or a reset.
TouchesMushroom(p, pos) ==
    /\ p.pos.x < pos.x + Px(mushroom_w)
    /\ p.pos.x + p.size.x > pos.x
    /\ p.pos.y < pos.y + Px(mushroom_h)
    /\ p.pos.y + p.size.y > pos.y

Unpicked(p, mushrooms) == SelectSeq(mushrooms, LAMBDA pos : ~TouchesMushroom(p, pos))

Picked(before, after) == Len(before) - Len(after)

MushroomStep ==
    /\ mid'.some =>
          /\ coined'.mushrooms = world.mushrooms
          /\ mid'.mushrooms = Unpicked(coined'.player, world.mushrooms)
          /\ mid'.score = coined'.score + 1000 * Picked(world.mushrooms, mid'.mushrooms)
          /\ mid'.player =
                 [coined'.player EXCEPT
                     !.powered = @ \/ Picked(world.mushrooms, mid'.mushrooms) > 0]
    /\ player.powered /\ ~player'.powered =>
          \/ Called(trace', "reset_level")
          \/ PowerDownTouch'

C13_MushroomPickup == [][MushroomStep]_vars

\* An unpowered player picks a mushroom up and ends the step powered.
C13_Witness ==
    /\ mid.some
    /\ Len(mid.mushrooms) < Len(coined.mushrooms)
    /\ ~coined.player.powered
    /\ player.powered
    /\ score = coined.score + 1000

\* C14.  When the player's rectangle intersects the goal trigger at the
\* end of a Playing step, score grows by 500 and the phase becomes
\* LevelComplete; the bonus is awarded at most once between two consecutive
\* resets.
AtGoal(p) == rects_intersect(Rect(p.pos.x, p.pos.y, p.size.x, p.size.y),
                             goal_trigger_rect(world))

C14_Goal ==
    /\ goals <= 1
    /\ resolved.some /\ AtGoal(resolved.player) =>
          /\ state = "LevelComplete"
          /\ score = resolved.score + 500
          /\ goals = 1
    /\ resolved.some /\ ~AtGoal(resolved.player) =>
          /\ state = "Playing"
          /\ score \in {resolved.score, 0}
          /\ goals = 0

\* The level is completed a second time, after a restart: the earlier
\* bonus is still the high score and the new one is added to a fresh score.
C14_Witness ==
    /\ resolved.some /\ AtGoal(resolved.player)
    /\ resolved.score = 0 /\ resolved.high_score = 500
    /\ score = 500 /\ state = "LevelComplete"

\* C15.  At the end of a Playing step the player is treated as dead (score
\* 0, level reset, phase unchanged) exactly when player.pos.y >
\* world_height * tile_size + 200; at the limit or above it on screen
\* nothing happens.
FallLimit == world.height * Tile + Px(200)

Resets(log) == Cardinality({i \in 1..Len(log) : log[i] = "reset_level"})

\* check_goal and check_fall_off, which follow the collision pass, reset
\* the level.
ResetAfterResolved == Resets(trace) > Resets(resolved.trace)

C15_FallOff ==
    resolved.some =>
        /\ ResetAfterResolved <=> resolved.player.pos.y > FallLimit
        /\ ResetAfterResolved =>
              /\ score = 0
              /\ PlayerAtSpawn(player) /\ EnemiesAtSpawn(enemies)
              /\ world.coins = coin_spawns /\ world.mushrooms = mushroom_spawns
              /\ state = "Playing"
        /\ ~ResetAfterResolved =>
              /\ player = resolved.player
              /\ score >= resolved.score

\* A player that began the step exactly at the limit, alive and with a coin
\* scored, is below it after the step and dies.
C15_Witness ==
    /\ resolved.some
    /\ began.player.pos.y = FallLimit
    /\ began.score = 200
    /\ resolved.player.pos.y > FallLimit
    /\ score = 0 /\ PlayerAtSpawn(player) /\ state = "Playing"

\* C19.  A live enemy on the ground reverses its direction in the step in
\* which the tile one pixel beyond its leading edge, at floor level, is not
\* solid; it does not walk off the platform and patrolling never leaves it
\* airborne.
SolidAt(x, y) ==
    LET col == x \div Tile
        row == y \div Tile
    IN  /\ col >= 0 /\ col < world.width
        /\ row >= 0 /\ row < world.height
        /\ \E k \in 1..Len(world.solids) :
               world.solids[k].x = col * Tile /\ world.solids[k].y = row * Tile

\* The point the claim names, for an enemy at pos that walked in direction dir.
FloorAhead(pos, size, dir) ==
    SolidAt(IF dir >= 0 THEN pos.x + size.x + Px(1) ELSE pos.x - Px(1),
            pos.y + size.y + Px(1))

\* Some floor tile lies under the enemy's rectangle.
Supported(pos, size) ==
    \E x \in {pos.x, pos.x + size.x \div 2, pos.x + size.x - 1} :
        SolidAt(x, pos.y + size.y + Px(1))

Patrol(a, b) ==
    /\ b.alive /\ b.on_ground
    /\ b.vel.y = 0 /\ b.pos.y = a.pos.y
    /\ Supported(b.pos, b.size)
    /\ ~FloorAhead(b.pos, b.size, a.dir) => b.dir = 0 - a.dir

C19_LedgeTurn ==
    moved.some =>
        \A i \in 1..Len(began.enemies) :
            began.enemies[i].alive /\ began.enemies[i].on_ground =>
                Patrol(began.enemies[i], moved.enemies[i])

\* An enemy walking right on a one-tile platform inside the world turns
\* left at the platform's right edge.
C19_Witness ==
    /\ moved.some
    /\ \E i \in 1..Len(began.enemies) :
          /\ began.enemies[i].alive /\ began.enemies[i].on_ground
          /\ began.enemies[i].dir = 1 /\ moved.enemies[i].dir = -1
          /\ moved.enemies[i].pos.x + moved.enemies[i].size.x + Px(1) < world.width * Tile
          /\ ~FloorAhead(moved.enemies[i].pos, moved.enemies[i].size, 1)

\* C16.  A jump pressed while the player is airborne with the coyote timer
\* at 0 is remembered: if the kernel reports on_ground in a later step
\* while the jump-buffer timer is still above 0, that step triggers the
\* jump (vel.y = -jump_speed, both timers 0, on_ground false, jumped
\* reported); if the player lands after the timer reached 0, no jump is
\* triggered.
Pressed == delivered # << >> /\ delivered[Len(delivered)].jump_pressed

Released == delivered # << >> /\ delivered[Len(delivered)].jump_released

\* The jump-buffer timer after lines 51-55 of a step that began as p.
BufferAfter(p) == IF Pressed THEN jump_buffer_time ELSE Max(p.jump_buffer_timer - fixed_dt, 0)

\* The step began airborne with no coyote time left and the kernel put the
\* player on the ground.
Landing ==
    /\ kernel.some
    /\ ~began.player.on_ground /\ began.player.coyote_timer = 0
    /\ kernel.player.on_ground

JumpedOff(p) ==
    /\ p.vel.y = 0 - Speed(jump_speed)
    /\ p.jump_buffer_timer = 0 /\ p.coyote_timer = 0
    /\ ~p.on_ground

C16_JumpBuffer ==
    Landing =>
        /\ kernel.player.jump_buffer_timer = BufferAfter(began.player)
        /\ BufferAfter(began.player) > 0 =>
              /\ JumpedOff(moved.player)
              /\ kernel.jumped /\ ~kernel.primed
              /\ Called(moved.trace, "play_jump")
        /\ BufferAfter(began.player) = 0 =>
              /\ moved.player = kernel.player
              /\ moved.player.on_ground /\ moved.player.vel.y = 0
              /\ ~kernel.jumped
              /\ ~Called(moved.trace, "play_jump")

\* The player lands seven steps after the press, with 1/300 s of the
\* buffer left and no press in the landing step, and jumps.
C16_Witness ==
    /\ Landing /\ ~Pressed
    /\ began.player.jump_buffer_timer = jump_buffer_time - 6 * fixed_dt
    /\ kernel.player.jump_buffer_timer = jump_buffer_time - 7 * fixed_dt
    /\ JumpedOff(moved.player) /\ kernel.jumped

\* C17.  The coyote timer is reloaded to coyote_time in every step that
\* begins with on_ground true and otherwise decays by dt toward 0; after the
\* player left the ground without jumping, a jump press delivered while
\* the timer is still above 0 triggers a jump before the move (vel.y =
\* -jump_speed, both timers 0, on_ground false, jumped reported) although
\* the player is airborne.
CoyoteAfter(p) == IF p.on_ground THEN coyote_time ELSE Max(p.coyote_timer - fixed_dt, 0)

\* vel.y one step of gravity after a jump trigger.
LiftOff == (Speed(gravity) * fixed_dt) \div TU - Speed(jump_speed)

C17_Coyote ==
    kernel.some =>
        /\ kernel.player.coyote_timer =
               IF kernel.primed THEN 0 ELSE CoyoteAfter(began.player)
        /\ ~began.player.on_ground /\ CoyoteAfter(began.player) > 0 /\ Pressed =>
              /\ kernel.primed /\ kernel.jumped
              /\ Called(moved.trace, "play_jump")
              /\ kernel.player.vel.y = LiftOff
              /\ kernel.player.pos.y = began.player.pos.y + (LiftOff * fixed_dt) \div VU
              /\ kernel.player.jump_buffer_timer = 0
              /\ ~kernel.player.on_ground
              /\ moved.player = kernel.player

\* The player walked off the platform five steps ago and is below it;
\* the press arrives in the last step in which the timer is above 0.
C17_Witness ==
    /\ kernel.some /\ Pressed
    /\ ~began.player.on_ground
    /\ began.player.coyote_timer = 2 * fixed_dt
    /\ began.player.pos.y > SpawnPos(world.player_spawn).y
    /\ began.player.vel.y > 0
    /\ kernel.primed /\ kernel.player.vel.y < 0

\* C18.  A jump-released edge delivered to a step that begins with
\* vel.y < 0 multiplies vel.y by jump_cut_multiplier in that step and, the
\* edge being cleared when consumed, in no other step; a release delivered
\* when vel.y >= 0 leaves vel.y as it was.
Halved(v) == 0 - ((0 - v) \div jump_cut_halves)

\* vel.y as lines 57-59 leave it in a step that began with v.
AfterRelease(v) == IF Released /\ v < 0 THEN Halved(v) ELSE v

\* vel.y after line 87.
WithGravity(v) == Min(v + (Speed(gravity) * fixed_dt) \div TU, Speed(terminal_velocity))

C18_JumpCut ==
    kernel.some =>
        /\ Released = frame.keys.jump_released
        /\ ~input.jump_released
        /\ ~kernel.primed /\ ~kernel.player.on_ground =>
              kernel.player.vel.y = WithGravity(AfterRelease(began.player.vel.y))

\* The jump key is released while the player rises: that step halves vel.y
\* before gravity is added.
C18_Witness ==
    /\ kernel.some /\ Released
    /\ began.player.vel.y < 0
    /\ ~kernel.primed /\ ~kernel.player.on_ground
    /\ kernel.player.vel.y = WithGravity(Halved(began.player.vel.y))
    /\ kernel.player.vel.y # WithGravity(began.player.vel.y)

\* C20.  For any position, size, solids (those the actor overlaps
\* included) and dt, move_with_collisions called with velocity (0, 0)
\* returns the position it was given and velocity (0, 0), and on_ground
\* false: with zero velocity the flag is not set by any overlap.
AtRest == call.some /\ ret.some /\ call.vel = vec2(0, 0)

\* The actor's rectangle, where the call finds it, intersects a solid.
Overlapping ==
    \E i \in 1..Len(call.solids) :
        /\ call.pos.x < call.solids[i].x + call.solids[i].w
        /\ call.pos.x + call.size.x > call.solids[i].x
        /\ call.pos.y < call.solids[i].y + call.solids[i].h
        /\ call.pos.y + call.size.y > call.solids[i].y

C20_KernelAtRest ==
    AtRest =>
        /\ ret.pos = call.pos
        /\ ret.vel = vec2(0, 0)
        /\ ~ret.on_ground

\* A call with zero velocity for an actor inside a solid.
C20_Witness ==
    /\ AtRest /\ Overlapping
    /\ ret.pos = call.pos /\ ret.vel = vec2(0, 0) /\ ~ret.on_ground

\* C20 as stated: with zero velocity the position and the velocity come
\* back unchanged and on_ground reports the static overlap, true exactly
\* when the actor's rectangle intersects a solid.
C20_AsStated ==
    AtRest =>
        /\ ret.pos = call.pos
        /\ ret.vel = vec2(0, 0)
        /\ ret.on_ground <=> Overlapping

\* C21.  rects_intersect(A, B) = rects_intersect(B, A) for all rectangles
\* A and B, and rectangles that only touch along an edge or at a corner
\* (for instance A.x + A.w = B.x) are never reported as intersecting.
Abut(a, b) ==
    \/ a.x + a.w = b.x \/ b.x + b.w = a.x
    \/ a.y + a.h = b.y \/ b.y + b.h = a.y

\* The open intervals (lo1, hi1) and (lo2, hi2) have a point in common.
Cross(lo1, hi1, lo2, hi2) == Max(lo1, lo2) < Min(hi1, hi2)

C21_Overlap ==
    call.some /\ ret.some =>
        /\ ret.ab = ret.ba
        /\ Abut(call.a, call.b) => ~ret.ab
        /\ ret.ab <=> /\ Cross(call.a.x, call.a.x + call.a.w, call.b.x, call.b.x + call.b.w)
                      /\ Cross(call.a.y, call.a.y + call.a.h, call.b.y, call.b.y + call.b.h)

\* A's right edge lies on B's left edge and their y ranges cross: no
\* intersection is reported in either order.
C21_Witness ==
    /\ call.some /\ ret.some
    /\ call.a.x + call.a.w = call.b.x
    /\ Cross(call.a.y, call.a.y + call.a.h, call.b.y, call.b.y + call.b.h)
    /\ ~ret.ab /\ ~ret.ba

\* C22.  In a Playing step the collision pass acts on at most one enemy,
\* the lowest-index live enemy whose rectangle intersects the player's;
\* unless the player dies, which resets the level, every other enemy is as
\* it was, also when the first enemy is ignored and a later one could be
\* stomped; at most one enemy dies and at most 100 points are awarded.
Touched(i) ==
    /\ mid.enemies[i].alive
    /\ Cross(mid.player.pos.x, mid.player.pos.x + mid.player.size.x,
             mid.enemies[i].pos.x, mid.enemies[i].pos.x + mid.enemies[i].size.x)
    /\ Cross(mid.player.pos.y, mid.player.pos.y + mid.player.size.y,
             mid.enemies[i].pos.y, mid.enemies[i].pos.y + mid.enemies[i].size.y)

FirstTouched(i) == Touched(i) /\ \A j \in 1..(i - 1) : ~Touched(j)

Changed(i) == resolved.enemies[i] # mid.enemies[i]

Killed == {i \in 1..Len(mid.enemies) : mid.enemies[i].alive /\ ~resolved.enemies[i].alive}

C22_FirstEnemyOnly ==
    mid.some =>
        /\ \A i \in 1..Len(mid.enemies) :
               Changed(i) =>
                   \/ DeathCase
                   \/ /\ FirstTouched(i)
                      /\ resolved.enemies[i] = [mid.enemies[i] EXCEPT !.alive = FALSE]
        /\ DeathCase => EnemiesAtSpawn(resolved.enemies)
        /\ Cardinality(Killed) <= 1
        /\ resolved.score <= mid.score + 100

\* Two live enemies intersect the falling player at once: the first is
\* stomped for 100 points and the second is as it was.
C22_Witness ==
    /\ mid.some
    /\ \E i, j \in 1..Len(mid.enemies) :
          /\ i < j /\ FirstTouched(i) /\ Touched(j)
          /\ ~resolved.enemies[i].alive
          /\ resolved.enemies[j] = mid.enemies[j]
    /\ resolved.score = mid.score + 100

\* C22 as stated: every enemy but the first touched one is as it was,
\* whatever the outcome.
C22_AsStated ==
    mid.some =>
        /\ \A i \in 1..Len(mid.enemies) :
               Changed(i) =>
                   /\ FirstTouched(i)
                   /\ resolved.enemies[i] = [mid.enemies[i] EXCEPT !.alive = FALSE]
        /\ Cardinality(Killed) <= 1
        /\ resolved.score <= mid.score + 100

\* C23.  move_with_collisions resolves X first and then Y at the resolved
\* X.  If the rectangle moved along Y intersects a solid while vel.y > 0,
\* the result has pos.y + size.y on that solid's top, vel.y = 0 and
\* on_ground true; if vel.y < 0, the result has pos.y on the solid's
\* bottom, vel.y = 0 and on_ground false.  on_ground is true in the result
\* only in the downward case.
Shift(v, dt) == IF v >= 0 THEN (v * dt) \div VU ELSE 0 - (((0 - v) * dt) \div VU)

\* The rectangle at (x, y) of the call's size intersects solid s.
Hits(x, y, s) ==
    /\ Cross(x, x + call.size.x, s.x, s.x + s.w)
    /\ Cross(y, y + call.size.y, s.y, s.y + s.h)

\* The solids met by the X move, made at the old y.
MetOnX ==
    {i \in 1..Len(call.solids) :
        Hits(call.pos.x + Shift(call.vel.x, call.dt), call.pos.y, call.solids[i])}

\* The solids met by the Y move, made at the resolved x.
MetOnY ==
    {i \in 1..Len(call.solids) :
        Hits(ret.pos.x, call.pos.y + Shift(call.vel.y, call.dt), call.solids[i])}

C23_AxisOrder ==
    call.some /\ ret.some =>
        /\ MetOnX = {} =>
              /\ ret.pos.x = call.pos.x + Shift(call.vel.x, call.dt)
              /\ ret.vel.x = call.vel.x
        /\ MetOnX # {} => ret.vel.x = 0
        /\ MetOnY = {} =>
              /\ ret.pos.y = call.pos.y + Shift(call.vel.y, call.dt)
              /\ ret.vel.y = call.vel.y
        /\ \A i \in MetOnY :
              /\ call.vel.y > 0 =>
                    /\ ret.pos.y + call.size.y = call.solids[i].y
                    /\ ret.vel.y = 0 /\ ret.on_ground
              /\ call.vel.y < 0 =>
                    /\ ret.pos.y = call.solids[i].y + call.solids[i].h
                    /\ ret.vel.y = 0 /\ ~ret.on_ground
        /\ ret.on_ground <=> call.vel.y > 0 /\ MetOnY # {}

\* An actor moving right and down beside a tile: the X move, made at the
\* old height, meets nothing, and the Y move at the new x lands on the tile.
C23_Witness ==
    /\ call.some /\ ret.some
    /\ call.vel.x > 0 /\ call.vel.y > 0
    /\ MetOnX = {} /\ MetOnY # {}
    /\ \A i \in 1..Len(call.solids) :
           ~Hits(call.pos.x, call.pos.y + Shift(call.vel.y, call.dt), call.solids[i])
    /\ ret.on_ground /\ ret.vel.y = 0
    /\ ret.pos.x = call.pos.x + Shift(call.vel.x, call.dt)

\* C24.  A player reset onto a spawn tile with a solid tile directly below
\* ends its first Playing step with zero input on the ground, with
\* vel.y = 0 and its bottom edge on the floor tile's top edge; every
\* further zero-input step leaves the position unchanged and on_ground
\* true.
ZeroInput ==
    /\ delivered # << >>
    /\ delivered[Len(delivered)].move_x = 0
    /\ ~delivered[Len(delivered)].jump_pressed
    /\ ~delivered[Len(delivered)].jump_released

FloorBelowSpawn == SolidAt(world.player_spawn.x, world.player_spawn.y + Tile)

FreshlySpawned(p) == PlayerAtSpawn(p) /\ ~p.on_ground

OnSpawnFloor(p) ==
    /\ p.on_ground
    /\ p.vel = vec2(0, 0)
    /\ p.pos.y + p.size.y = world.player_spawn.y + Tile
    /\ p.pos.x = world.player_spawn.x + (Tile - p.size.x) \div 2

Standing(p) == p.on_ground /\ p.vel = vec2(0, 0) /\ p.jump_buffer_timer = 0

C24_Standing ==
    kernel.some /\ ZeroInput =>
        /\ FreshlySpawned(began.player) /\ FloorBelowSpawn => OnSpawnFloor(moved.player)
        /\ Standing(began.player) =>
              /\ moved.player.pos = began.player.pos
              /\ moved.player.vel = vec2(0, 0)
              /\ moved.player.on_ground

\* The third zero-input step after the spawn onto a floor: the player
\* stood on the floor tile before the step and stands there after it.
C24_Witness ==
    /\ kernel.some /\ ZeroInput /\ FloorBelowSpawn
    /\ events = 0 /\ sim_steps >= 3
    /\ OnSpawnFloor(began.player) /\ OnSpawnFloor(moved.player)
    /\ moved.player.pos = began.player.pos

\* C25.  After every step and every reset the player's invulnerability,
\* jump-buffer and coyote timers are >= 0 and at most hurt_invuln_time,
\* jump_buffer_time and coyote_time; the invulnerability timer, once
\* started, decreases by dt per Playing step until it is 0 and then stays 0
\* until the next power-down hit.
TimersInRange(p) ==
    /\ p.invuln_timer >= 0 /\ p.invuln_timer <= hurt_invuln_time
    /\ p.jump_buffer_timer >= 0 /\ p.jump_buffer_timer <= jump_buffer_time
    /\ p.coyote_timer >= 0 /\ p.coyote_timer <= coyote_time

TimersAtRest(p) == p.invuln_timer = 0 /\ p.jump_buffer_timer = 0 /\ p.coyote_timer = 0

C25_Timers ==
    /\ TimersInRange(player)
    /\ Called(trace, "reset_level") => TimersAtRest(player)
    /\ began.some =>
          /\ TimersInRange(kernel.player) /\ TimersInRange(moved.player)
          /\ TimersInRange(resolved.player)
          /\ moved.player.invuln_timer = Max(began.player.invuln_timer - fixed_dt, 0)
          /\ ~Called(trace, "reset_level") =>
                player.invuln_timer =
                    IF PowerDownTouch THEN hurt_invuln_time
                    ELSE Max(began.player.invuln_timer - fixed_dt, 0)

\* A player that was powered down (1000 points of a mushroom, unpowered,
\* no reset since) has outlived its invulnerability: the timer was 0 when
\* the step began and is 0 after it.
C25_Witness ==
    /\ began.some /\ ~Called(trace, "reset_level")
    /\ began.score >= 1000 /\ ~began.player.powered
    /\ began.player.invuln_timer = 0 /\ player.invuln_timer = 0

\* C26.  When a live enemy's horizontal move is blocked by a solid, its
\* direction is negated exactly once in that step and it ends flush against
\* the wall without penetrating it; the ledge probe is skipped in such a
\* step, so a wall and a ledge in one step never cancel into no turn.
\* The solids an enemy, as it was when the step began, meets when it is
\* moved by enemy_speed * dir * dt at its old y.
WallsMet(a) ==
    {k \in 1..Len(world.solids) :
        /\ Cross(a.pos.x + Shift(Speed(enemy_speed) * a.dir, fixed_dt),
                 a.pos.x + Shift(Speed(enemy_speed) * a.dir, fixed_dt) + a.size.x,
                 world.solids[k].x, world.solids[k].x + world.solids[k].w)
        /\ Cross(a.pos.y, a.pos.y + a.size.y,
                 world.solids[k].y, world.solids[k].y + world.solids[k].h)}

Flush(a, b) ==
    \E k \in WallsMet(a) :
        IF a.dir > 0 THEN b.pos.x + b.size.x = world.solids[k].x
        ELSE b.pos.x = world.solids[k].x + world.solids[k].w

Penetrates(b) ==
    \E k \in 1..Len(world.solids) :
        /\ Cross(b.pos.x, b.pos.x + b.size.x,
                 world.solids[k].x, world.solids[k].x + world.solids[k].w)
        /\ Cross(b.pos.y, b.pos.y + b.size.y,
                 world.solids[k].y, world.solids[k].y + world.solids[k].h)

C26_WallTurn ==
    moved.some =>
        \A i \in 1..Len(began.enemies) :
            (began.enemies[i].alive /\ WallsMet(began.enemies[i]) # {}) =>
                /\ moved.enemies[i].dir = 0 - began.enemies[i].dir
                /\ moved.enemies[i].vel.x = Speed(enemy_speed) * moved.enemies[i].dir
                /\ Flush(began.enemies[i], moved.enemies[i])
                /\ ~Penetrates(moved.enemies[i])

\* An enemy on the ground met a wall with no floor under the point the
\* ledge probe would have taken.
C26_Witness ==
    /\ moved.some
    /\ \E i \in 1..Len(began.enemies) :
           /\ began.enemies[i].alive /\ WallsMet(began.enemies[i]) # {}
           /\ moved.enemies[i].on_ground
           /\ ~FloorAhead(moved.enemies[i].pos, moved.enemies[i].size, began.enemies[i].dir)

\* C27.  After every update of a live enemy 0 <= pos.x and
\* pos.x + size.x <= world.width * tile_size and dir is -1 or +1; an enemy
\* at the left bound has direction +1 and one at the right bound -1.
Contained(b) ==
    /\ b.pos.x >= 0
    /\ b.pos.x + b.size.x <= world.width * Tile
    /\ b.dir \in {-1, 1}
    /\ b.pos.x = 0 => b.dir = 1
    /\ b.pos.x + b.size.x = world.width * Tile => b.dir = -1

C27_Containment ==
    moved.some =>
        \A i \in 1..Len(began.enemies) :
            began.enemies[i].alive => Contained(moved.enemies[i])

\* An enemy walking right was put on the right bound.
C27_Witness ==
    /\ moved.some
    /\ \E i \in 1..Len(began.enemies) :
           /\ began.enemies[i].alive /\ began.enemies[i].dir = 1
           /\ moved.enemies[i].pos.x + moved.enemies[i].size.x = world.width * Tile
           /\ began.enemies[i].pos.x < moved.enemies[i].pos.x

\* C28.  At every fixed-step boundary in Playing,
\* score = 200 * (coins removed since the last reset)
\*       + 1000 * (mushrooms removed since the last reset)
\*       + 100 * (enemies not alive),
\* and every reset that leaves the game in Playing leaves all three terms 0.
CoinsRemoved == Len(coin_spawns) - Len(world.coins)

MushroomsRemoved == Len(mushroom_spawns) - Len(world.mushrooms)

EnemiesDown == Cardinality({i \in 1..Len(enemies) : ~enemies[i].alive})

C28_ScoreAccount ==
    state = "Playing" =>
        /\ score = 200 * CoinsRemoved + 1000 * MushroomsRemoved + 100 * EnemiesDown
        /\ Called(trace, "reset_level") =>
              CoinsRemoved = 0 /\ MushroomsRemoved = 0 /\ EnemiesDown = 0

\* A step of play ended with a coin, a mushroom and a stomp to account for.
C28_Witness ==
    /\ state = "Playing" /\ began.some
    /\ CoinsRemoved > 0 /\ MushroomsRemoved > 0 /\ EnemiesDown > 0

\* C29.  The step that consumes quit_pressed and restart_pressed together
\* in Playing or LevelComplete sets the phase to Title, performs no reset
\* (score and world as they were) and leaves no restart edge latched for a
\* later step.
QuitAndRestartStep ==
    (/\ state \in {"Playing", "LevelComplete"}
     /\ Len(delivered') >= 1
     /\ delivered'[1].quit_pressed /\ delivered'[1].restart_pressed) =>
        /\ state' = "Title"
        /\ ~Called(trace', "reset_level")
        /\ score' = score
        /\ world' = world
        /\ player' = player
        /\ enemies' = enemies
        /\ ~input'.restart_pressed /\ ~input'.quit_pressed

C29_QuitOverRestart == [][QuitAndRestartStep]_vars

\* Both edges reached a step of a run in progress with points on the board.
C29_Witness ==
    /\ prev_state = "Playing"
    /\ Len(delivered) = 1
    /\ delivered[1].quit_pressed /\ delivered[1].restart_pressed
    /\ score > 0
    /\ ~EnemiesAtSpawn(enemies)

\* C30.  Edges delivered in a phase that does not use them are dropped:
\* a Title step clears every edge it consumed and, without start, changes
\* nothing, while with start it leaves the freshly reset run whatever else
\* was pressed; a start edge consumed in Playing or LevelComplete causes no
\* transition to Title, no restart and no reset of its own.
NoEdge(inp) ==
    /\ ~inp.jump_pressed /\ ~inp.jump_released
    /\ ~inp.start_pressed /\ ~inp.restart_pressed /\ ~inp.quit_pressed

TitleStep ==
    (state = "Title" /\ Len(delivered') >= 1) =>
        /\ NoEdge(input')
        /\ IF delivered'[1].start_pressed
           THEN /\ state' = "Playing"
                /\ score' = 0
                /\ PlayerAtSpawn(player') /\ ~player'.on_ground
                /\ EnemiesAtSpawn(enemies')
                /\ world'.coins = coin_spawns /\ world'.mushrooms = mushroom_spawns
                /\ trace' = <<"reset_level", "start_music">>
           ELSE /\ state' = "Title"
                /\ score' = score /\ high_score' = high_score
                /\ world' = world /\ player' = player /\ enemies' = enemies
                /\ trace' = <<>>

StartEdgeStep ==
    (/\ state \in {"Playing", "LevelComplete"}
     /\ Len(delivered') >= 1
     /\ delivered'[1].start_pressed
     /\ ~delivered'[1].quit_pressed /\ ~delivered'[1].restart_pressed) =>
        /\ NoEdge(input')
        /\ ~Called(trace', "start_music")
        /\ IF state = "LevelComplete"
           THEN /\ state' = "LevelComplete"
                /\ score' = score
                /\ world' = world /\ player' = player /\ enemies' = enemies
                /\ trace' = <<>>
           ELSE /\ state' # "Title"
                /\ began'.some /\ sim_steps' = sim_steps + 1
                /\ Called(trace', "reset_level") => Called(trace', "play_hurt")

C30_EdgesDropped == [][TitleStep /\ StartEdgeStep]_vars

\* A Title step consumed start together with a jump edge, a restart edge
\* and a quit edge, and the run began.
C30_Witness ==
    /\ prev_state = "Title" /\ state = "Playing"
    /\ Len(delivered) = 1
    /\ delivered[1].start_pressed /\ delivered[1].jump_pressed
    /\ delivered[1].restart_pressed /\ delivered[1].quit_pressed
    /\ NoEdge(input)

\* C31.  A fixed step taken in Title or LevelComplete changes neither the
\* player, an enemy, the coins, the mushrooms, score nor high_score unless
\* it is the reset transition (start in Title, restart in LevelComplete);
\* no pickup, stomp, death or goal bonus occurs outside Playing.
ResetTransition ==
    \/ state = "Title" /\ delivered'[1].start_pressed
    \/ /\ state = "LevelComplete"
       /\ delivered'[1].restart_pressed /\ ~delivered'[1].quit_pressed

SimulationCues == {"play_jump", "play_coin", "play_powerup", "play_stomp", "play_hurt", "play_win"}

IdleStep ==
    (state \in {"Title", "LevelComplete"} /\ Len(delivered') >= 1) =>
        /\ sim_steps' = sim_steps
        /\ ~began'.some
        /\ \A k \in 1..Len(trace') : trace'[k] \notin SimulationCues
        /\ high_score' = high_score
        /\ IF ResetTransition
           THEN /\ state' = "Playing" /\ score' = 0
                /\ Called(trace', "reset_level")
           ELSE /\ player' = player
                /\ enemies' = enemies
                /\ world'.coins = world.coins
                /\ world'.mushrooms = world.mushrooms
                /\ score' = score
                /\ ~Called(trace', "reset_level")

C31_IdleOutsidePlaying == [][IdleStep]_vars

\* A step passed in LevelComplete with the bonus on the board and a live
\* enemy away from its spawn, and the game stayed there.
C31_Witness ==
    /\ prev_state = "LevelComplete" /\ state = "LevelComplete"
    /\ Len(delivered) = 1
    /\ score > 0
    /\ Len(enemies) > 0 /\ ~EnemiesAtSpawn(enemies)

\* C32.  Every jump trigger leaves the jump-buffer timer and the coyote
\* timer at 0 and on_ground false, at most one trigger fires per step, and
\* a step that begins off the ground with no coyote time triggers a jump
\* only when the kernel reports on_ground in that very step, whatever
\* presses arrive, and otherwise leaves the player off the ground with no
\* coyote time again: once a jump was triggered none follows until the
\* kernel reports on_ground, and one press gives at most one jump.
Spent(p) == ~p.on_ground /\ p.coyote_timer = 0

C32_NoAirJump ==
    kernel.some =>
        /\ kernel.jumped => Spent(moved.player) /\ moved.player.jump_buffer_timer = 0
        /\ kernel.primed => ~kernel.player.on_ground /\ kernel.player.vel.y < 0
        /\ Spent(began.player) =>
              /\ ~kernel.primed
              /\ kernel.jumped => kernel.player.on_ground
              /\ ~kernel.player.on_ground => Spent(moved.player)
        /\ Called(trace, "reset_level") => Spent(player) /\ player.jump_buffer_timer = 0

\* Rising from a jump, with no coyote time, the player is sent a second
\* press; no jump is triggered.
C32_Witness ==
    /\ kernel.some /\ Pressed
    /\ Spent(began.player) /\ began.player.vel.y < 0
    /\ ~kernel.jumped
    /\ kernel.player.jump_buffer_timer = jump_buffer_time

\* C33.  When jump_pressed and jump_released are delivered to one fixed
\* step that the player begins on the ground with vel.y >= 0, the jump is
\* triggered at full speed (vel.y = -jump_speed before gravity) and the
\* release edge is consumed without cutting it: the cut is evaluated before
\* the trigger, and the edge waits for no later step.
Tapped == Pressed /\ Released /\ began.player.on_ground /\ began.player.vel.y >= 0

C33_TapJumpsFull ==
    (kernel.some /\ Tapped) =>
        /\ kernel.primed /\ kernel.jumped
        /\ Called(moved.trace, "play_jump")
        /\ kernel.player.vel.y = WithGravity(0 - Speed(jump_speed))
        /\ kernel.player.pos.y =
               began.player.pos.y + Shift(WithGravity(0 - Speed(jump_speed)), fixed_dt)
        /\ moved.player = kernel.player
        /\ ~input.jump_released /\ ~input.jump_pressed

\* A tap reached a standing player: it left the ground at full speed.
C33_Witness ==
    /\ kernel.some /\ Tapped
    /\ kernel.primed
    /\ kernel.player.vel.y = WithGravity(0 - Speed(jump_speed))
    /\ kernel.player.vel.y # WithGravity(Halved(0 - Speed(jump_speed)))

\* C34.  Pickups are resolved before enemy contact: an unpowered player
\* that is not invulnerable and whose rectangle, in one Playing step,
\* intersects a mushroom and a live enemy without the stomp condition ends
\* the step alive, 1000 points richer for the mushroom, unpowered again and
\* with the invulnerability timer started; nothing is reset.
MushroomAndEnemy ==
    /\ moved.some /\ mid.some
    /\ ~moved.player.powered /\ moved.player.invuln_timer = 0
    /\ \E k \in 1..Len(moved.mushrooms) : TouchesMushroom(moved.player, moved.mushrooms[k])
    /\ \E i \in 1..Len(moved.enemies) : Touched(i)
    /\ \A i \in 1..Len(moved.enemies) :
           FirstTouched(i) => ~StompCase(moved.player, moved.enemies[i])

C34_PickupBeforeContact ==
    MushroomAndEnemy =>
        /\ ~Called(trace, "reset_level")
        /\ Called(trace, "play_powerup")
        /\ Picked(moved.mushrooms, mid.mushrooms) >= 1
        /\ mid.score = coined.score + 1000 * Picked(moved.mushrooms, mid.mushrooms)
        /\ resolved.score = mid.score
        /\ resolved.state = "Playing"
        /\ ~player.powered
        /\ player.invuln_timer = hurt_invuln_time

\* The player reached the mushroom in the step in which an enemy reached
\* the player.
C34_Witness ==
    /\ MushroomAndEnemy
    /\ score >= 1000
    /\ player.invuln_timer = hurt_invuln_time

====
